---- MODULE Spec2Model ----
(***************************************************************************)
(* Valyria tool system (src/tools.py.py) and the tool-use loop of          *)
(* valyria_think (src/main.py).                                            *)
(*                                                                         *)
(* Strings are sequences of one-character strings, so that                 *)
(* str.startswith, the substring test `in`, str.lower and Path.suffix are  *)
(* computed character by character as Python computes them.  A path is a   *)
(* sequence of component names; Str renders it as Python's str(Path).      *)
(***************************************************************************)
EXTENDS Naturals, Integers, Sequences, FiniteSets, TLC

VARIABLES
    files,      \* the regular files on disk: canonical path -> content
    dirs,       \* the directories on disk (canonical paths)
    links,      \* the symbolic links on disk: location -> absolute target
    cwd,        \* working directory of the server process
    IMAGE_GEN_AVAILABLE, \* whether the image generator was importable at start
    guardIn,    \* last argument pair given to is_path_allowed
    guardOut,   \* and the branch it returned through
    phase,      \* where one tool call stands: "idle", "called", "returned", "raised"
    call,       \* the tool_use block being executed: [name, args]
    result,     \* what execute_tool returned for it
    proc,       \* the subprocess.run call made for it, or NoProc
    pc,         \* where valyria_think stands: "AwaitingEngine", "ExecutingTools",
                \* "Done", "Aborted"; "none" when no invocation is modelled
    messages,   \* the transcript sent to the engine
    response,   \* the engine's latest response
    tool_results, \* the results collected for the response's tool_use blocks
    turns,      \* iterations of the tool-use loop completed
    answer,     \* the text valyria_think returned
    request,    \* valyria_think's arguments: the user's message, the playbooks
    CURRENT_MODE, \* the global mode of main.py line 142
    is_emergency, \* valyria_think's local of line 312
    conversations, \* the conversation turns stored for the user, oldest first
    decisions,  \* the policy decisions logged
    bracelet_data_store, \* the global of bracelet_endpoints.py line 12
    user_baselines, \* the global of bracelet_endpoints.py line 13
    packet,     \* the bracelet packet on its way to /bracelet/data
    reply       \* what the last bracelet endpoint called answered

fsVars == <<files, dirs, links, cwd, IMAGE_GEN_AVAILABLE>>
guardVars == <<guardIn, guardOut>>
toolVars == <<phase, call, result, proc>>
storeVars == <<conversations, decisions>>
braceletVars == <<bracelet_data_store, user_baselines, packet, reply>>
chatVars == <<request, CURRENT_MODE, is_emergency, storeVars, braceletVars>>
loopVars == <<pc, messages, response, tool_results, turns, answer, chatVars>>
vars == <<files, dirs, links, cwd, IMAGE_GEN_AVAILABLE, guardIn, guardOut,
          phase, call, result, proc,
          pc, messages, response, tool_results, turns, answer,
          request, CURRENT_MODE, is_emergency,
          conversations, decisions,
          bracelet_data_store, user_baselines, packet, reply>>

-----------------------------------------------------------------------------
(* Characters and names *)

\* the component names paths are built from, spelled out in characters
Chars ==
    ("app" :> <<"a","p","p">>) @@
    ("appx" :> <<"a","p","p","x">>) @@
    ("etc" :> <<"e","t","c">>) @@
    ("data" :> <<"d","a","t","a">>) @@
    ("valyria_core" :> <<"v","a","l","y","r","i","a","_","c","o","r","e">>) @@
    ("n.txt" :> <<"n",".","t","x","t">>) @@
    ("x.exe" :> <<"x",".","e","x","e">>) @@
    ("x.EXE" :> <<"x",".","E","X","E">>) @@
    ("lnk" :> <<"l","n","k">>) @@
    (".." :> <<".",".">>)

\* str.lower (on the upper-case letters the model uses)
Lower(s) ==
    [i \in 1..Len(s) |->
        CASE s[i] = "E" -> "e"
          [] s[i] = "X" -> "x"
          [] s[i] = "R" -> "r"
          [] s[i] = "M" -> "m"
          [] s[i] = "P" -> "p"
          [] s[i] = "L" -> "l"
          [] s[i] = "S" -> "s"
          [] s[i] = "F" -> "f"
          [] s[i] = "H" -> "h"
          [] OTHER -> s[i]]

\* str.startswith
StartsWith(s, prefix) ==
    /\ Len(prefix) <= Len(s)
    /\ SubSeq(s, 1, Len(prefix)) = prefix

\* the substring test `fragment in s`
Contains(s, fragment) ==
    \E i \in 0..(Len(s) - Len(fragment)) :
        SubSeq(s, i + 1, i + Len(fragment)) = fragment

RECURSIVE Str(_)
\* str(path) of an absolute path: "/" for the filesystem root, else
\* "/c1/c2/..."
Str(p) ==
    IF p = <<>> THEN <<"/">>
    ELSE IF Len(p) = 1 THEN <<"/">> \o Chars[p[1]]
    ELSE Str(SubSeq(p, 1, Len(p) - 1)) \o <<"/">> \o Chars[p[Len(p)]]

\* str.rfind('.') as a 1-based index, 0 when there is no dot
LastDot(s) ==
    LET dots == {i \in 1..Len(s) : s[i] = "."}
    IN  IF dots = {} THEN 0 ELSE CHOOSE i \in dots : \A j \in dots : j <= i

\* Path.suffix: the last component from its last dot on, unless that dot
\* is the first or the last character of the name
NameSuffix(name, i) ==
    IF 1 < i /\ i < Len(name) THEN SubSeq(name, i, Len(name)) ELSE <<>>

suffix(p) ==
    IF p = <<>> THEN <<>>
    ELSE NameSuffix(Chars[p[Len(p)]], LastDot(Chars[p[Len(p)]]))

-----------------------------------------------------------------------------
(* Configuration: src/tools.py.py lines 24-39 *)

VALYRIA_ROOT == <<"app">>

ALLOWED_DIRECTORIES ==
    << VALYRIA_ROOT \o <<"valyria_core">>,
       VALYRIA_ROOT \o <<"data">>,
       VALYRIA_ROOT >>

FORBIDDEN_EXTENSIONS ==
    { <<".","e","x","e">>, <<".","d","l","l">>, <<".","s","o">>,
      <<".","d","y","l","i","b">>, <<".","b","a","t">>, <<".","s","h">>,
      <<".","p","s","1">> }

-----------------------------------------------------------------------------
(* The filesystem as the operating system resolves it *)

\* longest chain of symbolic links followed while resolving one path
MaxLinkHops == 4

RECURSIVE Walk(_, _, _)
\* os.path.realpath: components left to right, ".." steps to the parent of
\* the resolved prefix, a symbolic link is replaced by its target
Walk(done, rest, hops) ==
    IF rest = <<>> THEN done
    ELSE IF Head(rest) = ".."
         THEN Walk(IF done = <<>> THEN <<>> ELSE SubSeq(done, 1, Len(done) - 1),
                   Tail(rest), hops)
    ELSE LET cand == Append(done, Head(rest))
         IN  IF cand \in DOMAIN links /\ hops > 0
             THEN Walk(<<>>, links[cand] \o Tail(rest), hops - 1)
             ELSE Walk(cand, Tail(rest), hops)

\* Path.resolve() of an absolute path
Resolve(p) == Walk(<<>>, p, MaxLinkHops)

\* Path.absolute() / Path.resolve() of a possibly relative path
Absolute(pin) == IF pin.abs THEN pin.parts ELSE cwd \o pin.parts

-----------------------------------------------------------------------------
(* is_path_allowed: src/tools.py.py lines 47-83 *)

\* the first entry of ALLOWED_DIRECTORIES whose resolved string is a prefix
\* of the resolved path's string; 0 when the for loop finds none
FirstOf(hits) ==
    IF hits = {} THEN 0 ELSE CHOOSE i \in hits : \A j \in hits : i <= j

FirstAllowedDir(p) ==
    FirstOf({i \in 1..Len(ALLOWED_DIRECTORIES) :
                StartsWith(Str(p), Str(Resolve(ALLOWED_DIRECTORIES[i])))})

\* the extension test without str.lower
ExtensionForbiddenCaseSensitive(p) == suffix(p) \in FORBIDDEN_EXTENSIONS

\* whether the suffix is forbidden (line 71)
ExtensionForbidden(p) == Lower(suffix(p)) \in FORBIDDEN_EXTENSIONS

\* lines 62-79 for the resolved path p
ResolvedVerdict(p, write) ==
    IF ~StartsWith(Str(p), Str(VALYRIA_ROOT)) THEN "OutsideRoot"
    ELSE IF write
         THEN IF FirstAllowedDir(p) # 0
              THEN IF ExtensionForbidden(p) THEN "ExtensionDenied"
                   ELSE "Allowed"
              ELSE "ZoneDenied"
         ELSE "Allowed"

\* the return statement is_path_allowed leaves through, named after the
\* warning it logs: "OutsideRoot" (line 64), "ExtensionDenied" (line 73),
\* "ZoneDenied" (line 76), "Allowed" (lines 74 and 79)
PathVerdict(path, write) ==
    ResolvedVerdict(Resolve(path), write)

is_path_allowed(path, write) == PathVerdict(path, write) = "Allowed"

-----------------------------------------------------------------------------
(* The operating system's view of the disk.  The operators take the disk  *)
(* (ds: directories, fl: files, lk: links) as parameters because mkdir    *)
(* changes it step by step.                                               *)

\* Path.parent: lexical, ".." is an ordinary component
Parent(p) == IF p = <<>> THEN <<>> ELSE SubSeq(p, 1, Len(p) - 1)

RECURSIVE OsWalk(_, _, _, _, _, _)
\* the kernel's path walk: every component stepped from must be an existing
\* directory; links are followed, the last component included
OsWalk(ds, fl, lk, done, rest, hops) ==
    IF rest = <<>> THEN [err |-> "ok", at |-> done]
    ELSE IF done \notin ds
         THEN [err |-> IF done \in DOMAIN fl THEN "NotADirectoryError"
                       ELSE "FileNotFoundError",
               at |-> done]
    ELSE IF Head(rest) = ".."
         THEN OsWalk(ds, fl, lk, Parent(done), Tail(rest), hops)
    ELSE LET cand == Append(done, Head(rest))
         IN  IF cand \in DOMAIN lk
             THEN IF hops = 0 THEN [err |-> "OSError", at |-> cand]
                  ELSE OsWalk(ds, fl, lk, <<>>, lk[cand] \o Tail(rest), hops - 1)
             ELSE OsWalk(ds, fl, lk, cand, Tail(rest), hops)

OsLookup(ds, fl, lk, p) == OsWalk(ds, fl, lk, <<>>, p, MaxLinkHops)

\* Path.is_dir()
IsDir(ds, fl, lk, p) ==
    LET r == OsLookup(ds, fl, lk, p) IN r.err = "ok" /\ r.at \in ds

\* Path.is_file()
IsFile(ds, fl, lk, p) ==
    LET r == OsLookup(ds, fl, lk, p) IN r.err = "ok" /\ r.at \in DOMAIN fl

\* Path.exists()
Exists(ds, fl, lk, p) == IsDir(ds, fl, lk, p) \/ IsFile(ds, fl, lk, p)

\* os.mkdir(p): [err, dirs]
OsMkdirIn(ds, fl, lk, par, last) ==
    IF par.err # "ok" THEN [err |-> par.err, dirs |-> ds]
    ELSE IF par.at \notin ds
         THEN [err |-> IF par.at \in DOMAIN fl THEN "NotADirectoryError"
                       ELSE "FileNotFoundError",
               dirs |-> ds]
    ELSE IF last = ".." \/ Append(par.at, last) \in ds \cup DOMAIN fl \cup DOMAIN lk
         THEN [err |-> "FileExistsError", dirs |-> ds]
    ELSE [err |-> "ok", dirs |-> ds \cup {Append(par.at, last)}]

OsMkdir(ds, fl, lk, p) ==
    IF p = <<>> THEN [err |-> "FileExistsError", dirs |-> ds]
    ELSE OsMkdirIn(ds, fl, lk, OsLookup(ds, fl, lk, Parent(p)), p[Len(p)])

\* the second os.mkdir of Path.mkdir, once the parents are made
MkdirAgain(ds, fl, lk, p, again) ==
    IF again.err = "ok" THEN again
    ELSE IF again.err # "FileNotFoundError" /\ IsDir(ds, fl, lk, p)
         THEN [err |-> "ok", dirs |-> ds]
    ELSE again

RECURSIVE PathMkdir(_, _, _, _)
RECURSIVE MkdirParents(_, _, _, _)
RECURSIVE MkdirAfter(_, _, _, _, _)

\* the parents are made first, then the directory itself
MkdirParents(fl, lk, p, up) ==
    IF up.err # "ok" THEN up
    ELSE MkdirAgain(up.dirs, fl, lk, p, OsMkdir(up.dirs, fl, lk, p))

\* what Path.mkdir does with the outcome of its first os.mkdir
MkdirAfter(ds, fl, lk, p, first) ==
    IF first.err = "ok" THEN first
    ELSE IF first.err = "FileNotFoundError"
         THEN IF p = <<>> THEN first
              ELSE MkdirParents(fl, lk, p, PathMkdir(ds, fl, lk, Parent(p)))
    ELSE IF IsDir(ds, fl, lk, p) THEN [err |-> "ok", dirs |-> ds]
    ELSE first

\* Path.mkdir(parents=True, exist_ok=True): [err, dirs]
PathMkdir(ds, fl, lk, p) == MkdirAfter(ds, fl, lk, p, OsMkdir(ds, fl, lk, p))

\* the directory entries of d: names of the files, directories and links in it
Entries(ds, fl, lk, d) ==
    {q[Len(q)] : q \in {x \in ds \cup DOMAIN fl \cup DOMAIN lk :
                            x # <<>> /\ Parent(x) = d}}

-----------------------------------------------------------------------------
(* Argument values.  The engine sends JSON: a string where the schema      *)
(* wants one, or another type.                                            *)

StrPath(abs, parts) == [kind |-> "str", abs |-> abs, parts |-> parts]
StrText(t) == [kind |-> "str", text |-> t]
StrMode(m) == [kind |-> "str", mode |-> m]
StrPattern(segs) == [kind |-> "str", segs |-> segs]
StrCommand(chars) == [kind |-> "str", chars |-> chars]
IntVal(n) == [kind |-> "int", n |-> n]

None == "None"
NoProc == [started |-> FALSE]
NoGuard == [in |-> [path |-> [abs |-> TRUE, parts |-> <<>>], write |-> FALSE],
            out |-> "none"]

\* file_path of lines 101-103, 150-152, 196-198, 315-317
FilePath(path) == IF path.abs THEN path.parts ELSE VALYRIA_ROOT \o path.parts

\* the guard asked for reading whatever the tool does
GuardCallReadIntent(fp, write) ==
    [in |-> [path |-> [abs |-> TRUE, parts |-> fp], write |-> FALSE],
     out |-> PathVerdict(fp, FALSE)]

GuardCall(fp, write) ==
    [in |-> [path |-> [abs |-> TRUE, parts |-> fp], write |-> write],
     out |-> PathVerdict(fp, write)]

\* what a handler leaves behind: its return value, the disk, the guard call
\* it made and the subprocess it started
Outcome(res, fl, ds, lk, g, pr) ==
    [result |-> res, files |-> fl, dirs |-> ds, links |-> lk, guard |-> g, proc |-> pr]

-----------------------------------------------------------------------------
(* read_file: src/tools.py.py lines 90-134 *)

ReadFailed(path, e, g) ==
    Outcome([success |-> FALSE, path |-> path, content |-> None, error |-> e],
            files, dirs, links, g, NoProc)

\* open(file_path, 'r') of line 114 opens in text mode with universal
\* newlines: f.read() gives "\n" for every "\r\n" and every lone "\r"
RECURSIVE TextDecode(_)
TextDecode(bytes) ==
    IF bytes = <<>> THEN <<>>
    ELSE IF Head(bytes) = "\r"
         THEN <<"\n">> \o TextDecode(IF Len(bytes) >= 2 /\ bytes[2] = "\n"
                                     THEN Tail(Tail(bytes)) ELSE Tail(bytes))
         ELSE <<Head(bytes)>> \o TextDecode(Tail(bytes))

\* io is the operating system's answer to open(): "ok" or the error raised
\* lines 118-125: the content of the file found at `at`
ReadContent(fp, g, content) ==
    Outcome([success |-> TRUE, path |-> fp, content |-> content,
             size |-> Len(content), error |-> None],
            files, dirs, links, g, NoProc)

\* lines 105-125, g being the guard's call
ReadGuarded(path, io, fp, g) ==
    IF g.out # "Allowed" THEN ReadFailed(path, "Access denied", g)
    ELSE IF ~Exists(dirs, files, links, fp) THEN ReadFailed(path, "File not found", g)
    ELSE IF ~IsFile(dirs, files, links, fp) THEN ReadFailed(path, "Not a file", g)
    ELSE IF io # "ok" THEN ReadFailed(path, io, g)
    ELSE ReadContent(fp, g, TextDecode(files[OsLookup(dirs, files, links, fp).at]))

read_file(path, io) ==
    IF path.kind # "str" THEN ReadFailed(path, "TypeError", NoGuard)
    ELSE ReadGuarded(path, io, FilePath(path), GuardCall(FilePath(path), FALSE))

-----------------------------------------------------------------------------
(* write_file: src/tools.py.py lines 137-181 *)

WriteFailed(path, e, fl, ds, g) ==
    Outcome([success |-> FALSE, path |-> path, error |-> e], fl, ds, links, g, NoProc)

\* open(file_path, mode) of line 161 opens in text mode: f.write(content)
\* puts the platform's line separator on disk for every "\n" (os.linesep
\* on POSIX is "\n")
RECURSIVE TextEncode(_)
TextEncode(text) ==
    IF text = <<>> THEN <<>>
    ELSE (IF Head(text) = "\n" THEN <<"\n">> ELSE <<Head(text)>>)
             \o TextEncode(Tail(text))

\* the file's content once open(file_path, mode) and f.write(content) ran
Written(old, content, mode) ==
    IF mode = "a" THEN old \o TextEncode(content) ELSE TextEncode(content)

\* lines 161-168: open(file_path, mode) and f.write(content) on the entry
\* `at`, whose content was `old`
WriteOpened(path, content, mode, io, fp, g, ds, at, old) ==
    IF at \in ds THEN WriteFailed(path, "IsADirectoryError", files, ds, g)
    ELSE IF mode.mode = "r" /\ at \notin DOMAIN files
         THEN WriteFailed(path, "FileNotFoundError", files, ds, g)
    ELSE IF io # "ok" THEN WriteFailed(path, io, files, ds, g)
    ELSE IF mode.mode = "r" THEN WriteFailed(path, "UnsupportedOperation", files, ds, g)
    ELSE IF content.kind # "str"
         \* open() with a writing mode has created or truncated the file
         THEN WriteFailed(path, "TypeError",
                          (at :> (IF mode.mode = "a" THEN old ELSE <<>>)) @@ files, ds, g)
    ELSE Outcome([success |-> TRUE, path |-> fp, size |-> Len(content.text),
                  mode |-> mode.mode, error |-> None],
                 (at :> Written(old, content.text, mode.mode)) @@ files,
                 ds, links, g, NoProc)

\* line 161 once the parents exist: where the kernel finds the path
WriteAt(path, content, mode, io, fp, g, ds, where) ==
    IF where.err # "ok" THEN WriteFailed(path, where.err, files, ds, g)
    ELSE WriteOpened(path, content, mode, io, fp, g, ds, where.at,
                     IF where.at \in DOMAIN files THEN files[where.at] ELSE <<>>)

\* lines 158-161, made being the outcome of mkdir
WriteMade(path, content, mode, io, fp, g, made) ==
    IF made.err # "ok" THEN WriteFailed(path, made.err, files, dirs, g)
    ELSE IF mode.kind # "str" THEN WriteFailed(path, "TypeError", files, made.dirs, g)
    ELSE IF mode.mode \notin {"w", "a", "r"}
         THEN WriteFailed(path, "ValueError", files, made.dirs, g)
    ELSE WriteAt(path, content, mode, io, fp, g, made.dirs,
                 OsLookup(made.dirs, files, links, fp))

\* lines 154-168, g being the guard's call
WriteGuarded(path, content, mode, io, fp, g) ==
    IF g.out # "Allowed" THEN WriteFailed(path, "Write access denied", files, dirs, g)
    ELSE WriteMade(path, content, mode, io, fp, g,
                   PathMkdir(dirs, files, links, Parent(fp)))

write_file(path, content, mode, io) ==
    IF path.kind # "str" THEN WriteFailed(path, "TypeError", files, dirs, NoGuard)
    ELSE WriteGuarded(path, content, mode, io, FilePath(path),
                      GuardCall(FilePath(path), TRUE))

-----------------------------------------------------------------------------
(* delete_file: src/tools.py.py lines 304-342 *)

DeleteFailed(path, e, g) ==
    Outcome([success |-> FALSE, path |-> path, error |-> e],
            files, dirs, links, g, NoProc)

\* f without the key k
Without(f, k) == [x \in (DOMAIN f) \ {k} |-> f[x]]

\* Path.unlink(): the directory entry named by the last component is
\* removed, a link there is not followed
\* line 326: unlink of the directory entry
Unlink(path, fp, g, entry) ==
    IF fp # <<>> /\ fp[Len(fp)] # ".." /\ entry \in DOMAIN links
    THEN Outcome([success |-> TRUE, path |-> fp, error |-> None],
                 files, dirs, Without(links, entry), g, NoProc)
    ELSE IF fp # <<>> /\ fp[Len(fp)] # ".." /\ entry \in DOMAIN files
         THEN Outcome([success |-> TRUE, path |-> fp, error |-> None],
                      Without(files, entry), dirs, links, g, NoProc)
    ELSE DeleteFailed(path, "IsADirectoryError", g)

\* lines 319-332, g being the guard's call
DeleteGuarded(path, io, fp, g) ==
    IF g.out # "Allowed" THEN DeleteFailed(path, "Delete access denied", g)
    ELSE IF ~Exists(dirs, files, links, fp) THEN DeleteFailed(path, "File not found", g)
    ELSE IF io # "ok" THEN DeleteFailed(path, io, g)
    ELSE Unlink(path, fp, g,
                Append(OsLookup(dirs, files, links, Parent(fp)).at, fp[Len(fp)]))

\* delete_file authorized as a read
DeleteFileReadIntent(path, io) ==
    IF path.kind # "str" THEN DeleteFailed(path, "TypeError", NoGuard)
    ELSE DeleteGuarded(path, io, FilePath(path),
                       [in |-> [path |-> [abs |-> TRUE, parts |-> FilePath(path)],
                                write |-> TRUE],
                        out |-> PathVerdict(FilePath(path), FALSE)])

delete_file(path, io) ==
    IF path.kind # "str" THEN DeleteFailed(path, "TypeError", NoGuard)
    ELSE DeleteGuarded(path, io, FilePath(path), GuardCall(FilePath(path), TRUE))

-----------------------------------------------------------------------------
(* list_files: src/tools.py.py lines 184-238 *)

ListFailed(directory, e, g) ==
    Outcome([success |-> FALSE, directory |-> directory, files |-> {}, error |-> e],
            files, dirs, links, g, NoProc)

\* str.endswith
EndsWith(s, tail) ==
    /\ Len(tail) <= Len(s)
    /\ SubSeq(s, Len(s) - Len(tail) + 1, Len(s)) = tail

RECURSIVE Glob(_, _)
\* Path.glob: the paths base/e1/e2/... whose components match the pattern's
\* segments one by one, a segment being "*", "*.txt" or a literal name; a
\* ".." segment steps to the parent
Glob(base, segs) ==
    IF segs = <<>> THEN {base}
    ELSE IF ~IsDir(dirs, files, links, base) THEN {}
    ELSE IF Head(segs) = ".." THEN Glob(Append(base, ".."), Tail(segs))
    ELSE LET here == OsLookup(dirs, files, links, base).at
             found == {e \in Entries(dirs, files, links, here) :
                          CASE Head(segs) = "*" -> TRUE
                            [] Head(segs) = "*.txt" ->
                                   EndsWith(Chars[e], <<".","t","x","t">>)
                            [] OTHER -> e = Head(segs)}
         IN  UNION {Glob(Append(base, e), Tail(segs)) : e \in found}

\* Path.relative_to: lexical, fails unless root's components lead the path
RelativeTo(p, root) ==
    IF Len(root) <= Len(p) /\ SubSeq(p, 1, Len(root)) = root
    THEN [err |-> "ok", parts |-> SubSeq(p, Len(root) + 1, Len(p))]
    ELSE [err |-> "ValueError", parts |-> <<>>]

\* lines 211-227 for the files the glob found
ListItems(directory, pattern, dir_path, g, items) ==
    IF \E i \in items : RelativeTo(i, VALYRIA_ROOT).err # "ok"
    THEN ListFailed(directory, "ValueError", g)
    ELSE Outcome([success |-> TRUE, directory |-> dir_path, pattern |-> pattern.segs,
                  files |-> {[name |-> i[Len(i)],
                              path |-> RelativeTo(i, VALYRIA_ROOT).parts,
                              size |-> Len(files[OsLookup(dirs, files, links, i).at]),
                              extension |-> suffix(i)] : i \in items},
                  count |-> Cardinality(items), error |-> None],
                 files, dirs, links, g, NoProc)

\* lines 200-227, g being the guard's call
ListGuarded(directory, pattern, io, dir_path, g) ==
    IF g.out # "Allowed" THEN ListFailed(directory, "Access denied", g)
    ELSE IF ~Exists(dirs, files, links, dir_path)
         THEN ListFailed(directory, "Directory not found", g)
    ELSE IF ~IsDir(dirs, files, links, dir_path)
         THEN ListFailed(directory, "Not a directory", g)
    ELSE IF pattern.kind # "str" THEN ListFailed(directory, "TypeError", g)
    ELSE IF io # "ok" THEN ListFailed(directory, io, g)
    ELSE ListItems(directory, pattern, dir_path, g,
                   {i \in Glob(dir_path, pattern.segs) : IsFile(dirs, files, links, i)})

list_files(directory, pattern, io) ==
    IF directory.kind # "str" THEN ListFailed(directory, "TypeError", NoGuard)
    ELSE ListGuarded(directory, pattern, io, FilePath(directory),
                     GuardCall(FilePath(directory), FALSE))

-----------------------------------------------------------------------------
(* run_command: src/tools.py.py lines 241-301 *)

FORBIDDEN_COMMANDS ==
    << <<"r","m"," ">>, <<"d","e","l"," ">>, <<"f","o","r","m","a","t">>,
       <<"s","h","u","t","d","o","w","n">>, <<"r","e","b","o","o","t">>,
       <<"d","d"," ">>, <<"m","k","f","s">>, <<">">>, <<">",">">> >>

safe_prefixes ==
    << <<"p","y","t","h","o","n"," ">>, <<"p","y"," ">>, <<"p","i","p"," ">>,
       <<"p","y","t","e","s","t"," ">>, <<"l","s">>, <<"d","i","r">>,
       <<"c","a","t">>, <<"t","y","p","e">> >>

\* the default of the timeout parameter (line 241)
DefaultTimeout == 30

\* lines 254-257: a forbidden fragment occurs in the lower-cased command
HasForbidden(command) ==
    \E i \in 1..Len(FORBIDDEN_COMMANDS) : Contains(Lower(command), FORBIDDEN_COMMANDS[i])

\* the whitelist test with every program name followed by a space
HasSafePrefixSpaced(command) ==
    \E i \in 1..Len(safe_prefixes) :
        StartsWith(command, IF safe_prefixes[i][Len(safe_prefixes[i])] = " "
                            THEN safe_prefixes[i]
                            ELSE Append(safe_prefixes[i], " "))

\* the whitelist test with `in` for str.startswith
HasSafePrefixAnywhere(command) ==
    \E i \in 1..Len(safe_prefixes) : Contains(command, safe_prefixes[i])

\* lines 260-262: the command starts with a safe prefix
HasSafePrefix(command) ==
    \E i \in 1..Len(safe_prefixes) : StartsWith(command, safe_prefixes[i])

\* the two checks in the other order
CommandVerdictAllowFirst(command) ==
    IF ~HasSafePrefix(command) THEN "Command not in whitelist"
    ELSE IF HasForbidden(command) THEN "Forbidden command"
    ELSE "Authorized"

\* the checks of lines 253-262 in their order: the ToolError raised, or
\* "Authorized" when execution goes on to subprocess.run
CommandVerdict(command) ==
    IF HasForbidden(command) THEN "Forbidden command"
    ELSE IF ~HasSafePrefix(command) THEN "Command not in whitelist"
    ELSE "Authorized"

CommandFailed(command, e, pr) ==
    Outcome([success |-> FALSE, command |-> command, output |-> None, error |-> e,
             return_code |-> -1],
            files, dirs, links, NoGuard, pr)

\* the call subprocess.run(command, shell=True, ..., timeout=timeout) and
\* how it ended
Started(command, timeout, sub) ==
    [started |-> TRUE, command |-> command, timeout |-> timeout, outcome |-> sub]

\* subprocess.TimeoutExpired caught by the generic clause of lines 293-301
TimedOutAsFault(command, timeout) ==
    CommandFailed(command, "TimeoutExpired",
                  Started(command.chars, timeout.n, "timeout"))

\* lines 284-292: the subprocess did not end within timeout seconds and
\* subprocess.run killed it
TimedOut(command, timeout) ==
    CommandFailed(command, "Command timed out",
                  Started(command.chars, timeout.n, "timeout"))

\* lines 253-282 once the two checks gave their verdict
CommandChecked(command, timeout, sub, verdict) ==
    IF verdict # "Authorized" THEN CommandFailed(command, verdict, NoProc)
    ELSE IF sub = "OSError"
         THEN CommandFailed(command, "OSError",
                            Started(command.chars, timeout, "OSError"))
    ELSE IF timeout.kind # "int"
         THEN CommandFailed(command, "TypeError",
                            Started(command.chars, timeout, "killed"))
    ELSE IF sub = "timeout" THEN TimedOut(command, timeout)
    ELSE Outcome([success |-> sub = "exit0", command |-> command,
                  output |-> "stdout",
                  error |-> CASE sub = "exit0" -> None
                              [] sub = "exit1" -> "stderr"
                              [] OTHER -> "",
                  return_code |-> IF sub = "exit0" THEN 0 ELSE 1],
                 files, dirs, links, NoGuard,
                 Started(command.chars, timeout.n, sub))

\* sub is how the subprocess ends: "exit0", "exit1" (stderr written),
\* "exit1quiet" (nothing on stderr), "timeout", or "OSError" when the shell
\* cannot be started.  What the command itself does to the disk is not
\* part of this model.
run_command(command, timeout, sub) ==
    IF command.kind # "str" THEN CommandFailed(command, "AttributeError", NoProc)
    ELSE CommandChecked(command, timeout, sub, CommandVerdict(command.chars))

-----------------------------------------------------------------------------
(* generate_image: src/tools.py.py lines 13-19 import it from a module     *)
(* that is not part of the sources; it answers with success or failure     *)

generate_image(io) ==
    Outcome([success |-> io = "ok",
             error |-> IF io = "ok" THEN None ELSE "image generation failed"],
            files, dirs, links, NoGuard, NoProc)

-----------------------------------------------------------------------------
(* The tool registry and execute_tool: src/tools.py.py lines 349-435 *)

AVAILABLE_TOOLS ==
    {"read_file", "write_file", "list_files", "run_command", "delete_file"}
        \cup (IF IMAGE_GEN_AVAILABLE THEN {"generate_image"} ELSE {})

\* the names of the tools advertised to the engine: src/main.py lines 26-100
TOOL_SCHEMAS == {"read_file", "write_file", "list_files", "run_command"}

\* the parameters of each handler's signature, and those without a default
Parameters(tool) ==
    CASE tool = "read_file" -> {"path"}
      [] tool = "write_file" -> {"path", "content", "mode"}
      [] tool = "list_files" -> {"directory", "pattern"}
      [] tool = "run_command" -> {"command", "timeout"}
      [] tool = "delete_file" -> {"path"}
      [] OTHER -> {"prompt", "negative_prompt", "width", "height", "style"}

Required(tool) ==
    CASE tool = "read_file" -> {"path"}
      [] tool = "write_file" -> {"path", "content"}
      [] tool = "list_files" -> {}
      [] tool = "run_command" -> {"command"}
      [] tool = "delete_file" -> {"path"}
      [] OTHER -> {"prompt"}

\* whether Python can bind the keyword arguments to the handler's signature
Binds(tool, args) ==
    /\ DOMAIN args \subseteq Parameters(tool)
    /\ Required(tool) \subseteq DOMAIN args

\* an argument, or the default of the signature
Arg(args, name, default) == IF name \in DOMAIN args THEN args[name] ELSE default

\* tool["function"](**kwargs) of line 428
CallHandler(tool, args, io, sub) ==
    CASE tool = "read_file" -> read_file(args["path"], io)
      [] tool = "write_file" ->
            write_file(args["path"], args["content"], Arg(args, "mode", StrMode("w")), io)
      [] tool = "list_files" ->
            list_files(Arg(args, "directory", StrPath(FALSE, <<>>)),
                       Arg(args, "pattern", StrPattern(<<"*">>)), io)
      [] tool = "run_command" ->
            run_command(args["command"], Arg(args, "timeout", IntVal(DefaultTimeout)), sub)
      [] tool = "delete_file" -> delete_file(args["path"], io)
      [] OTHER -> generate_image(io)

\* the call execute_tool(tool_name, **tool_input) cannot be made when the
\* engine's mapping has a key named like execute_tool's own parameter:
\* Python raises TypeError at the call, outside execute_tool's try
CallRaises(c) == "tool_name" \in DOMAIN c.args

\* execute_tool without the lookup of lines 420-424
ExecuteToolAnyName(c, io, sub) ==
    IF ~Binds(c.name, c.args)
    THEN Outcome([success |-> FALSE, error |-> "Tool execution failed"],
                 files, dirs, links, NoGuard, NoProc)
    ELSE CallHandler(c.name, c.args, io, sub)

\* the body of execute_tool, lines 420-435
execute_tool(c, io, sub) ==
    IF c.name \notin AVAILABLE_TOOLS
    THEN Outcome([success |-> FALSE, error |-> "Unknown tool"],
                 files, dirs, links, NoGuard, NoProc)
    ELSE IF ~Binds(c.name, c.args)
         THEN Outcome([success |-> FALSE, error |-> "Tool execution failed"],
                      files, dirs, links, NoGuard, NoProc)
    ELSE CallHandler(c.name, c.args, io, sub)

-----------------------------------------------------------------------------
(* Inputs *)

RECURSIVE SeqsUpTo(_, _)
\* the sequences over S of length at most n
SeqsUpTo(S, n) ==
    IF n = 0 THEN {<<>>}
    ELSE LET shorter == SeqsUpTo(S, n - 1)
         IN  shorter \cup {Append(s, x) : s \in {t \in shorter : Len(t) = n - 1}, x \in S}

\* the symbolic links the disk may hold when the server starts
LinkConfigs ==
    { <<>>,
      (<<"app", "data", "lnk">> :> <<"etc">>),
      (<<"app", "lnk">> :> <<"appx">>),
      (<<"etc", "lnk">> :> <<"app", "data", "n.txt">>),
      (<<"app", "data", "lnk">> :> <<"etc">>) @@
          (<<"etc", "lnk">> :> <<"app", "data", "n.txt">>) }

\* the paths the engine names in tool calls
ToolPaths ==
    { StrPath(FALSE, <<>>),                         \* "."
      StrPath(FALSE, <<"n.txt">>),                  \* directly in the root
      StrPath(FALSE, <<"data">>),                   \* a directory
      StrPath(FALSE, <<"data", "n.txt">>),
      StrPath(FALSE, <<"data", "x.exe">>),
      StrPath(FALSE, <<"data", "x.EXE">>),
      StrPath(FALSE, <<"valyria_core", "x.exe">>),
      StrPath(FALSE, <<"data", "lnk", "n.txt">>),   \* through a link
      StrPath(FALSE, <<"..", "etc", "n.txt">>),
      StrPath(TRUE, <<"etc", "n.txt">>),
      StrPath(TRUE, <<"etc", "lnk">>),
      StrPath(TRUE, <<"etc">>),
      StrPath(TRUE, <<"appx">>),
      StrPath(TRUE, <<"appx", "n.txt">>) }

RECURSIVE Flatten(_)
\* the words of a command written one after the other
Flatten(ws) == IF ws = <<>> THEN <<>> ELSE Head(ws) \o Flatten(Tail(ws))

\* the command strings of at most n of the words commands are made of
Commands(n) ==
    {Flatten(ws) :
        ws \in SeqsUpTo({ <<"p","y","t","h","o","n"," ">>, <<"P","y","t","h","o","n"," ">>,
                          <<"l","s">>, <<"c","a","t">>, <<"b","l","k">>, <<" ">>, <<"x">>,
                          <<"r","m"," ">>, <<"R","M"," ">>, <<"a","d","d"," ">>, <<">">>,
                          <<"m","k","f","s">> }, n)}

\* a mapping with one more key
With(args, name, value) == (name :> value) @@ args

Call(name, args) == [name |-> name, args |-> args]

\* the directories the engine asks to list
ToolDirs ==
    { StrPath(FALSE, <<>>), StrPath(FALSE, <<"data">>), StrPath(FALSE, <<"data", "lnk">>),
      StrPath(FALSE, <<"data", "n.txt">>), StrPath(TRUE, <<"etc">>),
      StrPath(TRUE, <<"appx">>) }

\* run_command on each of cmds; the engine also gives a timeout for some
CommandCallsOf(cmds) ==
    {Call("run_command", With(<<>>, "command", c)) :
        c \in {StrCommand(x) : x \in cmds} \cup {IntVal(5)}}
    \cup {Call("run_command", With(With(<<>>, "command", StrCommand(x)), "timeout", t)) :
             x \in cmds \cap { <<"l","s">>, <<"r","m"," ","x">>, <<"x">> },
             t \in { IntVal(5), StrText(<<"c">>) }}

\* the calls the engine makes when the disk is modelled: reads, deletions,
\* writes, listings and commands; then calls Python cannot bind, calls of
\* tools that do not exist, a call whose mapping names execute_tool's own
\* parameter
ToolCalls ==
    LET base == {With(With(<<>>, "path", p), "content", StrText(<<"c">>)) :
                    p \in ToolPaths}
        one == With(<<>>, "path", StrPath(FALSE, <<"data", "n.txt">>))
    IN  {Call("read_file", With(<<>>, "path", p)) : p \in ToolPaths \cup {IntVal(5)}}
        \cup {Call("delete_file", With(<<>>, "path", p)) : p \in ToolPaths \cup {IntVal(5)}}
        \cup {Call("write_file", a) : a \in base}
        \cup {Call("write_file", With(a, "mode", StrMode("a"))) : a \in base}
        \cup {Call("write_file", With(With(one, "content", StrText(<<"c">>)), "mode", m)) :
                 m \in {StrMode("w"), StrMode("r"), StrMode("z"), IntVal(5)}}
        \cup {Call("write_file", With(one, "content", IntVal(5)))}
        \cup {Call("list_files", <<>>)}
        \cup {Call("list_files", With(<<>>, "directory", d)) :
                 d \in ToolDirs \cup {IntVal(5)}}
        \cup {Call("list_files", With(With(<<>>, "directory", d), "pattern", g)) :
                 d \in ToolDirs,
                 g \in { StrPattern(<<"*">>), StrPattern(<<"*.txt">>),
                         StrPattern(<<"..", "etc", "*">>) }}
        \cup {Call("list_files", With(<<>>, "pattern", IntVal(5)))}
        \cup CommandCallsOf({ <<"l","s">>, <<"p","y","t","h","o","n"," ","x">>,
                              <<"r","m"," ","x">>, <<"x">>, <<"l","s"," ",">","x">> })
        \cup {Call(t, <<>>) :
                 t \in {"read_file", "write_file", "run_command", "delete_file"}}
        \cup {Call(t, With(With(<<>>, "path", StrPath(FALSE, <<"n.txt">>)),
                           "bogus", IntVal(5))) :
                 t \in {"read_file", "delete_file"}}
        \cup {Call("web_search", With(<<>>, "query", StrText(<<"c">>)))}
        \cup {Call("generate_image", With(<<>>, "prompt", StrText(<<"c">>)))}
        \cup {Call(t, With(With(<<>>, "path", StrPath(FALSE, <<"data", "n.txt">>)),
                           "tool_name", StrText(<<"c">>))) :
                 t \in {"read_file", "delete_file"}}

\* what the world outside the program can answer to a call: how a
\* subprocess ends, what the operating system answers to open() and unlink()
Answers(c) ==
    IF c.name = "run_command"
    THEN {[io |-> "ok", sub |-> x] :
             x \in {"exit0", "exit1", "exit1quiet", "timeout", "OSError"}}
    ELSE {[io |-> x, sub |-> "exit0"] : x \in {"ok", "PermissionError"}}

-----------------------------------------------------------------------------
(* Bounds of the model *)

\* longest path, in components, handed to is_path_allowed
MaxPathLen == 3

\* longest file content, in tokens
MaxContentLen == 1

\* most words in a command
MaxCmdWords == 3

\* most iterations of the tool-use loop in one invocation
MaxTurns == 2

\* most tool_use blocks in one response
MaxBatch == 2

\* most tool_use blocks in one invocation
MaxCalls == 2

-----------------------------------------------------------------------------
(* Initial states *)

NoCall == Call("none", <<>>)
NoResult == [success |-> FALSE, error |-> "no result"]

\* the disk when the server starts
InitDisk ==
    /\ dirs = { <<>>, <<"app">>, <<"app", "data">>, <<"app", "valyria_core">>,
                <<"etc">> }
    /\ files = (<<"app", "data", "n.txt">> :> <<"c">>) @@
               (<<"app", "data", "x.exe">> :> <<"c">>) @@
               (<<"etc", "n.txt">> :> <<"c">>)

InitIdle ==
    /\ phase = "idle"
    /\ call = NoCall
    /\ result = NoResult
    /\ proc = NoProc

NoResponse == [stop_reason |-> "none", content |-> <<>>]
NoRequest == [message |-> <<>>, playbooks |-> <<>>, history |-> <<>>]
NoReply == [code |-> 0]

\* the globals of the bracelet endpoints when the module is loaded, no
\* packet on its way
InitNoBracelet ==
    /\ bracelet_data_store = <<>>
    /\ user_baselines = <<>>
    /\ packet = [device_id |-> None]
    /\ reply = NoReply

\* no invocation of valyria_think
InitNoLoop ==
    /\ pc = "none"
    /\ messages = <<>>
    /\ response = NoResponse
    /\ tool_results = <<>>
    /\ turns = 0
    /\ answer = None
    /\ request = NoRequest
    /\ CURRENT_MODE = "CHAT"
    /\ is_emergency = FALSE
    /\ conversations = <<>>
    /\ decisions = <<>>
    /\ InitNoBracelet

-----------------------------------------------------------------------------
(* The path guard applied to arbitrary paths *)

\* the caller's argument pair, not yet checked
InitGuard ==
    /\ InitDisk
    /\ links \in LinkConfigs
    /\ cwd \in { <<>>, VALYRIA_ROOT }
    /\ IMAGE_GEN_AVAILABLE = FALSE
    /\ guardIn \in [path : [abs : BOOLEAN,
                             parts : SeqsUpTo(DOMAIN Chars, MaxPathLen) \ {<<>>}],
                     write : BOOLEAN]
    /\ guardOut = "none"
    /\ InitIdle
    /\ InitNoLoop

\* the call is_path_allowed(path, write)
CheckPath ==
    /\ guardOut = "none"
    /\ guardOut' = PathVerdict(Absolute(guardIn.path), guardIn.write)
    /\ UNCHANGED <<fsVars, guardIn, toolVars, loopVars>>

NextGuard == CheckPath

SpecGuard == InitGuard /\ [][NextGuard]_vars

-----------------------------------------------------------------------------
(* Tool calls one after the other against the disk *)

InitTools ==
    /\ InitDisk
    /\ links \in {lk \in LinkConfigs : DOMAIN lk = {} \/ Cardinality(DOMAIN lk) = 2}
    /\ cwd = <<>>
    /\ IMAGE_GEN_AVAILABLE \in BOOLEAN
    /\ guardIn = NoGuard.in
    /\ guardOut = NoGuard.out
    /\ InitIdle
    /\ InitNoLoop

\* no file grows beyond the bound of the model
WithinBounds(c) ==
    CallRaises(c) \/
        LET o == execute_tool(c, "ok", "exit0")
        IN  \A f \in DOMAIN o.files : Len(o.files[f]) <= MaxContentLen

\* the engine's response holds the tool_use block c (main.py lines 376-378)
ToolUse(c) ==
    /\ phase = "idle"
    /\ WithinBounds(c)
    /\ phase' = "called"
    /\ call' = c
    /\ UNCHANGED <<fsVars, guardVars, result, proc>>

\* result = execute_tool(tool_name, **tool_input) (main.py line 382)
ExecuteTool ==
    /\ phase = "called"
    /\ \E ans \in Answers(call) :
          IF CallRaises(call)
          THEN /\ phase' = "raised"
               /\ UNCHANGED <<files, dirs, links, guardVars, result, proc>>
          ELSE LET o == execute_tool(call, ans.io, ans.sub)
               IN  /\ phase' = "returned"
                   /\ result' = o.result
                   /\ files' = o.files
                   /\ dirs' = o.dirs
                   /\ links' = o.links
                   /\ guardIn' = o.guard.in
                   /\ guardOut' = o.guard.out
                   /\ proc' = o.proc
    /\ UNCHANGED <<cwd, IMAGE_GEN_AVAILABLE, call>>

\* the result is appended to tool_results (main.py lines 384-388), or the
\* TypeError leaves the loop
Return ==
    /\ phase \in {"returned", "raised"}
    /\ phase' = "idle"
    /\ call' = NoCall
    /\ result' = NoResult
    /\ proc' = NoProc
    /\ guardIn' = NoGuard.in
    /\ guardOut' = NoGuard.out
    /\ UNCHANGED fsVars

NextTools ==
    \/ \E c \in ToolCalls : ToolUse(c) /\ UNCHANGED loopVars
    \/ ExecuteTool /\ UNCHANGED loopVars
    \/ Return /\ UNCHANGED loopVars

SpecTools == InitTools /\ [][NextTools]_vars

-----------------------------------------------------------------------------
(* Writing a file and reading it back *)

\* write_file, read_file and delete_file on one writable path; the texts
\* written are a letter, a carriage return, a line feed
RoundTripCalls ==
    LET one == With(<<>>, "path", StrPath(FALSE, <<"data", "n.txt">>))
        texts == { <<"c">>, <<"\r">>, <<"\n">> }
    IN  {Call("write_file", With(one, "content", StrText(t))) : t \in texts}
        \cup {Call("write_file", With(With(one, "content", StrText(t)), "mode", StrMode("a"))) :
                 t \in texts}
        \cup {Call("read_file", one), Call("delete_file", one)}

NextRoundTrip ==
    \/ \E c \in RoundTripCalls : ToolUse(c) /\ UNCHANGED loopVars
    \/ ExecuteTool /\ UNCHANGED loopVars
    \/ Return /\ UNCHANGED loopVars

SpecRoundTrip == InitTools /\ [][NextRoundTrip]_vars

-----------------------------------------------------------------------------
(* run_command applied to arbitrary command strings *)

InitCommand ==
    /\ InitDisk
    /\ links = <<>>
    /\ cwd = <<>>
    /\ IMAGE_GEN_AVAILABLE = FALSE
    /\ guardIn = NoGuard.in
    /\ guardOut = NoGuard.out
    /\ phase = "called"
    /\ call \in CommandCallsOf(Commands(MaxCmdWords))
    /\ result = NoResult
    /\ proc = NoProc
    /\ InitNoLoop

NextCommand == ExecuteTool /\ UNCHANGED loopVars

SpecCommand == InitCommand /\ [][NextCommand]_vars

-----------------------------------------------------------------------------
(* valyria_think: src/main.py lines 348-411 *)

\* the tool calls the engine asks for during an invocation
LoopCalls ==
    { Call("read_file", With(<<>>, "path", StrPath(FALSE, <<"data", "n.txt">>))),
      Call("write_file", With(With(<<>>, "path", StrPath(FALSE, <<"data", "n.txt">>)),
                              "content", StrText(<<"c">>))),
      Call("read_file", With(<<>>, "path", StrPath(TRUE, <<"etc", "n.txt">>))),
      Call("web_search", With(<<>>, "query", StrText(<<"c">>))),
      Call("run_command", With(<<>>, "command", StrCommand(<<"l","s">>))),
      Call("read_file", With(With(<<>>, "path", StrPath(FALSE, <<"data", "n.txt">>)),
                             "tool_name", StrText(<<"c">>))) }

TextBlock(t) == [type |-> "text", text |-> t]
ToolUseBlock(id, c) == [type |-> "tool_use", id |-> id, name |-> c.name, input |-> c.args]

\* the tool_use blocks of a response (line 373)
ToolUsesOf(r) == SelectSeq(r.content, LAMBDA b : b.type = "tool_use")

RECURSIVE CountCalls(_, _)
\* the tool_use blocks answered in the first n messages of the transcript
CountCalls(msgs, n) ==
    IF n = 0 THEN 0
    ELSE (IF msgs[n].kind = "tool_results" THEN Len(msgs[n].content) ELSE 0)
             + CountCalls(msgs, n - 1)

\* the responses the engine can give without stop_reason "tool_use": a
\* final text, a text cut at max_tokens, a tool_use block cut at max_tokens
\* (line 359)
FinalResponses ==
    { [stop_reason |-> "end_turn", content |-> <<TextBlock("t")>>],
      [stop_reason |-> "max_tokens", content |-> <<TextBlock("t")>>] }
    \cup {[stop_reason |-> "max_tokens",
           content |-> <<TextBlock("t"), ToolUseBlock(<<turns + 1, 1>>, c)>>] :
              c \in { Call("write_file",
                            With(With(<<>>, "path", StrPath(FALSE, <<"data", "n.txt">>)),
                                 "content", StrText(<<"c">>))) }}

\* the responses with stop_reason "tool_use": tool_use blocks numbered by
\* turn and position, a single one possibly after a text block
ToolResponses ==
    {[stop_reason |-> "tool_use",
      content |-> [k \in 1..Len(cs) |-> ToolUseBlock(<<turns + 1, k>>, cs[k])]] :
        cs \in SeqsUpTo(LoopCalls, MaxBatch) \ {<<>>}}
    \cup {[stop_reason |-> "tool_use",
           content |-> <<TextBlock("t"), ToolUseBlock(<<turns + 1, 1>>, c)>>] :
              c \in LoopCalls}

\* the text blocks of the final response joined (lines 402-403)
FinalText(r) ==
    LET texts == SelectSeq(r.content, LAMBDA b : b.type = "text")
    IN  [k \in 1..Len(texts) |-> texts[k].text]

\* the user's messages and playbook rules of the model
Requests ==
    { [message |-> <<"F","i","r","e">>, playbooks |-> <<>>, history |-> <<>>],
      [message |-> <<"l","o","o","p">>, playbooks |-> << <<"C","a","t">> >>,
       history |-> <<>>] }

\* any(keyword in message_lower for keyword in keywords)
AnyIn(keywords, text) == \E i \in 1..Len(keywords) : Contains(text, keywords[i])

\* the reply chosen for the lower-cased message (lines 184-270), named
\* after its text
OfflineReply(lower, rules, emergency) ==
    LET emergency_keywords ==
            << <<"f","i","r","e">>, <<"s","m","o","k","e">>,
               <<"b","l","e","e","d","i","n","g">>,
               <<"c","h","e","s","t"," ","p","a","i","n">>,
               <<"u","n","c","o","n","s","c","i","o","u","s">>,
               <<"e","m","e","r","g","e","n","c","y">>, <<"u","r","g","e","n","t">>,
               <<"h","e","l","p">>, <<"d","a","n","g","e","r">> >>
        coding_keywords ==
            << <<"c","o","d","e">>, <<"c","o","d","i","n","g">>,
               <<"p","y","t","h","o","n">>,
               <<"j","a","v","a","s","c","r","i","p","t">>,
               <<"p","r","o","g","r","a","m">>,
               <<"l","o","o","p">>, <<"f","u","n","c","t","i","o","n">>,
               <<"v","a","r","i","a","b","l","e">> >>
    IN
        IF AnyIn(emergency_keywords, lower) \/ emergency
        THEN IF Contains(lower, <<"f","i","r","e">>) \/ Contains(lower, <<"s","m","o","k","e">>)
             THEN "EMERGENCY PROTOCOL: fire"
             ELSE IF Contains(lower, <<"b","l","e","e","d","i","n","g">>)
                  THEN "EMERGENCY - BLEEDING PROTOCOL"
                  ELSE "EMERGENCY PROTOCOL"
        ELSE IF AnyIn(coding_keywords, lower) /\ Contains(lower, <<"l","o","o","p">>)
             THEN IF \E i \in 1..Len(rules) : Contains(Lower(rules[i]), <<"c","a","t">>)
                  THEN "for loop, cat example"
                  ELSE "for loop"
        ELSE IF AnyIn(<< <<"h","e","l","l","o">>, <<"h","i">>, <<"h","e","y">> >>, lower)
             THEN "Hello"
        ELSE IF Contains(lower, <<"w","h","o"," ","a","r","e"," ","y","o","u">>)
                \/ Contains(lower, <<"w","h","a","t"," ","a","r","e"," ","y","o","u">>)
             THEN "I'm Valyria"
        ELSE "offline mode with limited intelligence"

\* valyria_offline_think, main.py lines 175-270; mode is CURRENT_MODE when
\* line 180 reads it
valyria_offline_think(message, playbooks, mode) ==
    OfflineReply(Lower(message), playbooks, mode = "EMERGENCY")

\* the offline answer to an empty message
OfflineOfNothing ==
    << IF is_emergency THEN "[OFFLINE - EMERGENCY]" ELSE "[Offline mode]",
       valyria_offline_think(<<>>, <<>>, CURRENT_MODE) >>

\* the offline substitute of lines 409-411
Offline ==
    << IF is_emergency THEN "[OFFLINE - EMERGENCY]" ELSE "[Offline mode]",
       valyria_offline_think(request.message, request.playbooks, CURRENT_MODE) >>

\* the last n elements of a list: list[-n:]
LastOf(list, n) ==
    IF Len(list) <= n THEN list ELSE SubSeq(list, Len(list) - n + 1, Len(list))

\* lines 352-357: every turn as a user and an assistant message, then the
\* user's message
ExpandTurns(history, message) ==
    [k \in 1..(2 * Len(history)) |->
        IF k % 2 = 1
        THEN [role |-> "user", kind |-> "text", content |-> history[(k + 1) \div 2].user]
        ELSE [role |-> "assistant", kind |-> "text",
              content |-> history[k \div 2].assistant]]
    \o <<[role |-> "user", kind |-> "text", content |-> message]>>

\* the transcript seeded with the whole history
SeedMessagesUnlimited(history, message, emergency) == ExpandTurns(history, message)

\* lines 348-357: the last 3 or 10 turns of the history, each as a user and
\* an assistant message, then the user's message
SeedMessages(history, message, emergency) ==
    ExpandTurns(LastOf(history, IF emergency THEN 3 ELSE 10), message)

\* the first request: messages seeded with the user message (lines 349-369)
InitLoop ==
    /\ InitDisk
    /\ links = <<>>
    /\ cwd = <<>>
    /\ IMAGE_GEN_AVAILABLE = FALSE
    /\ guardIn = NoGuard.in
    /\ guardOut = NoGuard.out
    /\ InitIdle
    /\ pc = "AwaitingEngine"
    /\ request \in Requests
    /\ CURRENT_MODE \in {"CHAT", "EMERGENCY"}
    /\ is_emergency = (CURRENT_MODE = "EMERGENCY")
    /\ messages = SeedMessages(request.history, request.message, is_emergency)
    /\ conversations = <<>>
    /\ decisions = <<>>
    /\ InitNoBracelet
    /\ response = NoResponse
    /\ tool_results = <<>>
    /\ turns = 0
    /\ answer = None

\* messages.create returns a response asking for tools (lines 363-373)
EngineAsksTools ==
    /\ pc = "AwaitingEngine"
    /\ turns < MaxTurns
    /\ \E r \in ToolResponses :
          /\ CountCalls(messages, Len(messages)) + Len(ToolUsesOf(r)) <= MaxCalls
          /\ response' = r
    /\ pc' = "ExecutingTools"
    /\ tool_results' = <<>>
    /\ UNCHANGED <<fsVars, guardVars, toolVars, messages, turns, answer, chatVars>>

\* messages.create returns a response without tool use: the while loop is
\* left and the text returned (lines 372, 401-405)
EngineAnswers ==
    /\ pc = "AwaitingEngine"
    /\ \E r \in FinalResponses :
          /\ response' = r
          /\ answer' = FinalText(r)
    /\ pc' = "Done"
    /\ UNCHANGED <<fsVars, guardVars, toolVars, messages, tool_results, turns, chatVars>>

\* messages.create raises: the except clause returns the offline answer
\* (lines 407-411)
EngineFails ==
    /\ pc = "AwaitingEngine"
    /\ pc' = "Aborted"
    /\ answer' = Offline
    /\ UNCHANGED <<fsVars, guardVars, toolVars, messages, response, tool_results, turns,
                   chatVars>>

\* the for loop takes the next tool_use block (lines 376-378)
LoopToolUse ==
    /\ pc = "ExecutingTools"
    /\ Len(tool_results) < Len(ToolUsesOf(response))
    /\ LET b == ToolUsesOf(response)[Len(tool_results) + 1]
       IN  ToolUse(Call(b.name, b.input))
    /\ UNCHANGED loopVars

\* line 382
LoopExecute ==
    /\ pc = "ExecutingTools"
    /\ ExecuteTool
    /\ UNCHANGED loopVars

\* the result is appended to tool_results (lines 384-388); the TypeError of
\* a call that could not be made is caught by line 407
LoopReturn ==
    /\ pc = "ExecutingTools"
    /\ Return
    /\ IF phase = "raised"
       THEN /\ pc' = "Aborted"
            /\ answer' = Offline
            /\ UNCHANGED <<messages, response, tool_results, turns, chatVars>>
       ELSE /\ tool_results' =
                 Append(tool_results,
                        [type |-> "tool_result",
                         tool_use_id |-> ToolUsesOf(response)[Len(tool_results) + 1].id,
                         content |-> result])
            /\ UNCHANGED <<pc, messages, response, turns, answer, chatVars>>

\* the results are appended before the response they answer
SendResultsSwapped ==
    /\ pc = "ExecutingTools"
    /\ phase = "idle"
    /\ Len(tool_results) = Len(ToolUsesOf(response))
    /\ messages' = messages \o
          << [role |-> "user", kind |-> "tool_results", content |-> tool_results],
             [role |-> "assistant", kind |-> "blocks", content |-> response.content] >>
    /\ turns' = turns + 1
    /\ pc' = "AwaitingEngine"
    /\ UNCHANGED <<fsVars, guardVars, toolVars, response, tool_results, answer, chatVars>>

\* both messages are appended and the engine called again as soon as one
\* result is there
SendResultsEarly ==
    /\ pc = "ExecutingTools"
    /\ phase = "idle"
    /\ Len(tool_results) >= 1
    /\ messages' = messages \o
          << [role |-> "assistant", kind |-> "blocks", content |-> response.content],
             [role |-> "user", kind |-> "tool_results", content |-> tool_results] >>
    /\ turns' = turns + 1
    /\ pc' = "AwaitingEngine"
    /\ UNCHANGED <<fsVars, guardVars, toolVars, response, tool_results, answer, chatVars>>

\* the batch is complete: both messages are appended and the engine is
\* called again (lines 390-399)
SendResults ==
    /\ pc = "ExecutingTools"
    /\ phase = "idle"
    /\ Len(tool_results) = Len(ToolUsesOf(response))
    /\ messages' = messages \o
          << [role |-> "assistant", kind |-> "blocks", content |-> response.content],
             [role |-> "user", kind |-> "tool_results", content |-> tool_results] >>
    /\ turns' = turns + 1
    /\ pc' = "AwaitingEngine"
    /\ UNCHANGED <<fsVars, guardVars, toolVars, response, tool_results, answer, chatVars>>

NextLoop ==
    \/ EngineAsksTools
    \/ EngineAnswers
    \/ EngineFails
    \/ LoopToolUse
    \/ LoopExecute
    \/ LoopReturn
    \/ SendResults

SpecLoop == InitLoop /\ [][NextLoop]_vars

-----------------------------------------------------------------------------
(* The /chat and /mode endpoints: src/main.py lines 147-173, 525-529 and   *)
(* 565-601.  The conversation store and the decision log are kept by the   *)
(* module data_store, which is not part of the sources.                     *)

\* most turns the conversation store holds when a request arrives
MaxHistory == 11

\* str.upper
Upper(s) ==
    LET lower == <<"a","b","c","d","e","f","g","h","i","j","k","l","m",
                   "n","o","p","q","r","s","t","u","v","w","x","y","z">>
        upper == <<"A","B","C","D","E","F","G","H","I","J","K","L","M",
                   "N","O","P","Q","R","S","T","U","V","W","X","Y","Z">>
    IN  [i \in 1..Len(s) |->
            IF \E k \in 1..26 : lower[k] = s[i]
            THEN upper[CHOOSE k \in 1..26 : lower[k] = s[i]]
            ELSE s[i]]

RECURSIVE LStrip(_)
\* str.lstrip: the leading blanks removed
LStrip(s) == IF s # <<>> /\ Head(s) = " " THEN LStrip(Tail(s)) ELSE s

RECURSIVE RStrip(_)
\* str.rstrip: the trailing blanks removed
RStrip(s) ==
    IF s # <<>> /\ s[Len(s)] = " " THEN RStrip(SubSeq(s, 1, Len(s) - 1)) ELSE s

\* parse_mode, lines 147-157
parse_mode(value) ==
    IF value = <<>> THEN "CHAT"
    ELSE LET v == Upper(RStrip(LStrip(value)))
         IN  IF v \in { <<"R","E","A","D">>,
                        <<"R","E","A","D","_","C","L","E","A","N">>,
                        <<"C","L","E","A","N","_","R","E","A","D">> }
             THEN "READ"
             ELSE IF v \in { <<"P","U","B","L","I","C">>,
                             <<"P","U","B","L","I","C","_","I","N","T","E","R","N","E","T">>,
                             <<"I","N","T","E","R","N","E","T">>,
                             <<"W","E","B">> }
             THEN "PUBLIC"
             ELSE IF v \in { <<"E","M","E","R","G","E","N","C","Y">>,
                             <<"U","R","G","E","N","T">>,
                             <<"C","R","I","T","I","C","A","L">> }
             THEN "EMERGENCY"
             ELSE "CHAT"

\* policy_decide, lines 169-173
policy_decide(mode, tool) ==
    IF tool = "PUBLIC_INTERNET" /\ mode # "PUBLIC"
    THEN [decision |-> "REVIEW", reason |-> "Internet tool requested outside PUBLIC mode."]
    ELSE [decision |-> "ALLOW", reason |-> "Allowed by baseline policy."]

\* data_store.get_conversation_history(user_id, limit): the user's latest
\* turns, oldest first
get_conversation_history(store, limit) == LastOf(store, limit)

\* data_store.add_conversation_turn(user_id, user, assistant)
add_conversation_turn(store, user, assistant) ==
    Append(store, [user |-> user, assistant |-> assistant])

\* data_store.log_decision(...)
log_decision(log, mode, tool, intent, decision) ==
    Append(log, [mode |-> mode, tool |-> tool, intent |-> intent,
                 decision |-> decision.decision, reason |-> decision.reason])

\* chat up to the first request to the engine: lines 570-591, and of
\* valyria_think lines 312 and 348-369
chat(req) ==
    /\ pc = "none"
    /\ LET history == get_conversation_history(conversations, 10)
           decision == policy_decide(CURRENT_MODE, "CHAT")
       IN  /\ decisions' = log_decision(decisions, CURRENT_MODE, "CHAT",
                                        req.message, decision)
           /\ IF decision.decision = "BLOCK"
              THEN /\ pc' = "Blocked"
                   /\ UNCHANGED <<request, is_emergency, messages>>
              ELSE /\ request' = [message |-> req.message,
                                  playbooks |-> req.playbooks,
                                  history |-> history]
                   /\ is_emergency' = (CURRENT_MODE = "EMERGENCY")
                   /\ messages' = SeedMessages(history, req.message,
                                               CURRENT_MODE = "EMERGENCY")
                   /\ pc' = "AwaitingEngine"
    /\ UNCHANGED <<fsVars, guardVars, toolVars, response, tool_results, turns, answer,
                   CURRENT_MODE, conversations, braceletVars>>

\* the turn is stored twice
ChatPersistTwice ==
    /\ pc \in {"Done", "Aborted"}
    /\ conversations' =
          add_conversation_turn(
              add_conversation_turn(conversations, request.message, answer),
              request.message, answer)
    /\ pc' = "Replied"
    /\ UNCHANGED <<fsVars, guardVars, toolVars, messages, response, tool_results, turns,
                   answer, request, CURRENT_MODE, is_emergency, decisions, braceletVars>>

\* chat after valyria_think returned: line 593, then the reply is streamed
ChatPersist ==
    /\ pc \in {"Done", "Aborted"}
    /\ conversations' = add_conversation_turn(conversations, request.message, answer)
    /\ pc' = "Replied"
    /\ UNCHANGED <<fsVars, guardVars, toolVars, messages, response, tool_results, turns,
                   answer, request, CURRENT_MODE, is_emergency, decisions, braceletVars>>

\* set_mode, lines 525-529.  It is a plain def: FastAPI runs it on a thread
\* of its pool, so once handed to the pool it runs at any moment of a
\* valyria_think that occupies the event loop.
set_mode(mode) ==
    /\ CURRENT_MODE' = parse_mode(mode)
    /\ UNCHANGED <<fsVars, guardVars, toolVars, pc, messages, response, tool_results,
                   turns, answer, request, is_emergency, storeVars, braceletVars>>

\* the server before a chat request arrives: the mode of line 142, a store
\* holding the turns of earlier requests: none, fewer than 3, between 3 and
\* 10, more than 10, the k-th turn being question k and answer k
InitChat ==
    /\ InitDisk
    /\ links = <<>>
    /\ cwd = <<>>
    /\ IMAGE_GEN_AVAILABLE = FALSE
    /\ guardIn = NoGuard.in
    /\ guardOut = NoGuard.out
    /\ InitIdle
    /\ pc = "none"
    /\ messages = <<>>
    /\ response = NoResponse
    /\ tool_results = <<>>
    /\ turns = 0
    /\ answer = None
    /\ request = NoRequest
    /\ CURRENT_MODE = "CHAT"
    /\ is_emergency = FALSE
    /\ conversations \in
          LET letters == <<"a","b","c","d","e","f","g","h","i","j","k","l","m",
                           "n","o","p">>
          IN  {[k \in 1..n |-> [user |-> <<"q", letters[k]>>,
                                assistant |-> <<"r", letters[k]>>]] :
                  n \in {0, 2, 4, MaxHistory}}
    /\ decisions = <<>>
    /\ InitNoBracelet

\* the engine asks for tools while a chat request is followed: a file of
\* the data directory is read, with or without a stray argument
ChatAsksTools ==
    /\ EngineAsksTools
    /\ \A k \in 1..Len(ToolUsesOf(response')) :
          Call(ToolUsesOf(response')[k].name, ToolUsesOf(response')[k].input)
              \in { Call("read_file",
                         With(<<>>, "path", StrPath(FALSE, <<"data", "n.txt">>))),
                    Call("read_file",
                         With(With(<<>>, "path", StrPath(FALSE, <<"data", "n.txt">>)),
                              "tool_name", StrText(<<"c">>))) }

NextChat ==
    \/ \E req \in Requests : chat(req)
    \/ \E mode \in {<<>>, <<" ","U","r","g","e","n","t"," ">>, <<"w","e","b">>} :
          set_mode(mode)
    \/ ChatAsksTools
    \/ EngineAnswers
    \/ EngineFails
    \/ LoopToolUse
    \/ LoopExecute
    \/ LoopReturn
    \/ SendResults
    \/ ChatPersist

SpecChat == InitChat /\ [][NextChat]_vars

-----------------------------------------------------------------------------
(* The bracelet: src/bracelet_endpoints.py lines 20-204 and the endpoints  *)
(* of src/main.py lines 603-707.  Temperatures are in tenths of a degree.  *)

\* dict.get(key, default)
Get(d, key, default) == IF key \in DOMAIN d THEN d[key] ELSE default

\* determine_energy_state with both ends of the critical ranges critical
DetermineEnergyStateInclusive(bpm, temp_c, intensity, activity) ==
    IF bpm >= 160 \/ bpm <= 45 THEN "emergency"
    ELSE IF temp_c >= 380 \/ temp_c <= 300 THEN "emergency"
    ELSE IF bpm > 120 /\ temp_c < 310 /\ intensity > 2 THEN "anxious"
    ELSE IF 100 <= bpm /\ bpm <= 120 /\ intensity > 3 THEN "stressed"
    ELSE IF 80 <= bpm /\ bpm <= 100 /\ intensity > 1 THEN "active"
    ELSE IF 60 <= bpm /\ bpm <= 80 /\ intensity < 1 THEN "calm"
    ELSE IF activity = "running" THEN "active"
    ELSE "calm"

\* bracelet_endpoints.py lines 20-52
determine_energy_state(bpm, temp_c, intensity, activity) ==
    IF bpm > 160 \/ bpm < 45 THEN "emergency"
    ELSE IF temp_c > 380 \/ temp_c < 300 THEN "emergency"
    ELSE IF bpm > 120 /\ temp_c < 310 /\ intensity > 2 THEN "anxious"
    ELSE IF 100 <= bpm /\ bpm <= 120 /\ intensity > 3 THEN "stressed"
    ELSE IF 80 <= bpm /\ bpm <= 100 /\ intensity > 1 THEN "active"
    ELSE IF 60 <= bpm /\ bpm <= 80 /\ intensity < 1 THEN "calm"
    ELSE IF activity = "running" THEN "active"
    ELSE "calm"

\* lines 70-149: the alerts in the order they are appended
AlertsFor(bpm, hrv, temp_c, activity, fall_detected, intensity) ==
    LET Alert(type, severity, trigger) ==
            [type |-> type, severity |-> severity, trigger |-> trigger]
    IN
        (IF bpm > 130 /\ temp_c < 310 /\ intensity > 3
         THEN <<Alert("PANIC", "HIGH", [heart_rate |-> bpm, temperature |-> temp_c,
                                        motion_intensity |-> intensity])>>
         ELSE <<>>)
        \o (IF fall_detected
            THEN <<Alert("FALL", "HIGH", [fall_detected |-> TRUE, activity |-> activity])>>
            ELSE <<>>)
        \o (IF bpm < 45 \/ bpm > 160
            THEN <<Alert("MEDICAL", "CRITICAL", [heart_rate |-> bpm])>>
            ELSE <<>>)
        \o (IF temp_c > 380 \/ temp_c < 300
            THEN <<Alert("MEDICAL", "HIGH", [temperature |-> temp_c])>>
            ELSE <<>>)
        \o (IF hrv < 20 /\ bpm > 100
            THEN <<Alert("MEDICAL", "MEDIUM", [hrv |-> hrv, heart_rate |-> bpm])>>
            ELSE <<>>)

\* bracelet_endpoints.py lines 55-155: the values are read with their
\* defaults (lines 60-71)
process_bracelet_data(data) ==
    LET sensors == Get(data, "sensors", <<>>)
        heart_rate == Get(sensors, "heart_rate", <<>>)
        temperature == Get(sensors, "temperature", <<>>)
        motion == Get(sensors, "motion", <<>>)
    IN  [alerts |-> AlertsFor(Get(heart_rate, "bpm", 70), Get(heart_rate, "hrv", 50),
                              Get(temperature, "celsius", 330),
                              Get(motion, "activity", "unknown"),
                              Get(motion, "fall_detected", FALSE),
                              Get(motion, "intensity", 0)),
         energy_state |-> determine_energy_state(Get(heart_rate, "bpm", 70),
                                                 Get(temperature, "celsius", 330),
                                                 Get(motion, "intensity", 0),
                                                 Get(motion, "activity", "unknown"))]

\* bracelet_endpoints.py lines 158-204
handle_bracelet_emergency(alerts, data) ==
    [timestamp |-> "now",
     device_id |-> Get(data, "device_id", "unknown"),
     user_id |-> Get(data, "user_id", "unknown"),
     alerts |-> alerts,
     actions_taken |->
         [k \in 1..Len(alerts) |->
             CASE alerts[k].type = "PANIC" -> "asking user status"
               [] alerts[k].type = "FALL" -> "initiating immediate response protocol"
               [] OTHER -> <<"starting assessment", alerts[k].severity>>]]

\* POST /bracelet/data, main.py lines 603-638.  The HTTPException of line
\* 608 is caught by line 636 and answered as a 500
receive_bracelet_data(data) ==
    /\ IF data = <<>> \/ "device_id" \notin DOMAIN data \/ "sensors" \notin DOMAIN data
       THEN /\ reply' = [code |-> 500, body |-> "Invalid data format"]
            /\ UNCHANGED bracelet_data_store
       ELSE /\ bracelet_data_store' =
                 (data["device_id"] :> [last_update |-> "now", data |-> data])
                     @@ bracelet_data_store
            /\ LET processed == process_bracelet_data(data)
                   received == [status |-> "received", timestamp |-> "now",
                                energy_state |-> processed.energy_state,
                                alerts_triggered |-> Len(processed.alerts)]
               IN  reply' =
                      [code |-> 200,
                       body |-> IF processed.alerts = <<>> THEN received
                                ELSE ("emergency_response" :>
                                          handle_bracelet_emergency(processed.alerts,
                                                                    data))
                                         @@ received]
    /\ UNCHANGED user_baselines

\* POST /bracelet/register, main.py lines 641-680
register_bracelet(registration) ==
    IF \E k \in {"device_id", "user_id", "serial_number"} :
           Get(registration, k, None) = None
    THEN /\ reply' = [code |-> 400, body |-> "Missing required fields"]
         /\ UNCHANGED <<bracelet_data_store, user_baselines>>
    ELSE /\ bracelet_data_store' =
              (registration["device_id"] :>
                   [user_id |-> registration["user_id"],
                    serial_number |-> registration["serial_number"],
                    registered_at |-> "now", status |-> "active",
                    last_update |-> None, data |-> None])
                  @@ bracelet_data_store
         /\ user_baselines' =
              IF registration["user_id"] \in DOMAIN user_baselines THEN user_baselines
              ELSE (registration["user_id"] :>
                        [resting_heart_rate |-> 70, normal_temp |-> 330,
                         activity_patterns |-> <<>>])
                       @@ user_baselines
         /\ reply' = [code |-> 200,
                      body |-> [status |-> "registered",
                                device_id |-> registration["device_id"],
                                user_id |-> registration["user_id"],
                                timestamp |-> "now"]]

\* what GET /bracelet/status/{device_id} answers on a store (lines 683-689)
BraceletStatus(store, device_id) ==
    IF device_id \notin DOMAIN store THEN [code |-> 404, body |-> "not found"]
    ELSE [code |-> 200, body |-> store[device_id]]

\* what GET /bracelet/history/{user_id} answers on a store (lines 692-707)
BraceletHistory(store, user_id) ==
    LET user_devices == {d \in DOMAIN store : Get(store[d], "user_id", None) = user_id}
    IN  IF user_devices = {} THEN [code |-> 404, body |-> "No bracelets found"]
        ELSE [code |-> 200,
              body |-> [user_id |-> user_id, devices |-> user_devices,
                        current_data |-> [d \in user_devices |-> store[d]]]]

get_bracelet_status(device_id) ==
    /\ reply' = BraceletStatus(bracelet_data_store, device_id)
    /\ UNCHANGED <<bracelet_data_store, user_baselines>>

get_bracelet_history(user_id) ==
    /\ reply' = BraceletHistory(bracelet_data_store, user_id)
    /\ UNCHANGED <<bracelet_data_store, user_baselines>>

Devices == {"d1", "d2"}
Users == {"u1", "u2"}

\* a packet of a device: its sensors and, when the bracelet knows it, the
\* user
Packet(device_id, user, sensors) ==
    IF user = None THEN [device_id |-> device_id, sensors |-> sensors]
    ELSE [device_id |-> device_id, user_id |-> user, sensors |-> sensors]

Sensors(bpm, hrv, temp_c, activity, fall_detected, intensity) ==
    [heart_rate |-> [bpm |-> bpm, hrv |-> hrv],
     temperature |-> [celsius |-> temp_c],
     motion |-> [activity |-> activity, fall_detected |-> fall_detected,
                 intensity |-> intensity]]

InitBracelet ==
    /\ InitDisk
    /\ links = <<>>
    /\ cwd = <<>>
    /\ IMAGE_GEN_AVAILABLE = FALSE
    /\ guardIn = NoGuard.in
    /\ guardOut = NoGuard.out
    /\ InitIdle
    /\ InitNoLoop

\* what the bracelet endpoints leave alone
notBracelet == <<fsVars, guardVars, toolVars, pc, messages, response, tool_results,
                 turns, answer, request, CURRENT_MODE, is_emergency, storeVars>>

\* the registrations sent, one of them without a serial number
Registrations ==
    {[device_id |-> d, user_id |-> u, serial_number |-> "s1"] :
        d \in Devices, u \in Users}
    \cup {[device_id |-> "d1", user_id |-> "u1"]}

\* the packets sent to a bracelet store: no readings at all, a panic
\* reading, a packet without sensors
StorePackets ==
    {Packet(d, u, sn) : d \in Devices, u \in {None, "u1"},
                        sn \in {<<>>, Sensors(131, 50, 305, "unknown", FALSE, 4)}}
    \cup {[device_id |-> "d1"]}

NextBracelet ==
    \/ \E r \in Registrations : register_bracelet(r) /\ UNCHANGED <<packet, notBracelet>>
    \/ \E p \in StorePackets :
          receive_bracelet_data(p) /\ UNCHANGED <<packet, notBracelet>>
    \/ \E d \in Devices : get_bracelet_status(d) /\ UNCHANGED <<packet, notBracelet>>
    \/ \E u \in Users : get_bracelet_history(u) /\ UNCHANGED <<packet, notBracelet>>

SpecBracelet == InitBracelet /\ [][NextBracelet]_vars

\* one packet of device d1 on its way, without readings or with readings
\* around the thresholds of the energy states and alerts
InitEnergy ==
    /\ InitDisk
    /\ links = <<>>
    /\ cwd = <<>>
    /\ IMAGE_GEN_AVAILABLE = FALSE
    /\ guardIn = NoGuard.in
    /\ guardOut = NoGuard.out
    /\ InitIdle
    /\ pc = "none"
    /\ messages = <<>>
    /\ response = NoResponse
    /\ tool_results = <<>>
    /\ turns = 0
    /\ answer = None
    /\ request = NoRequest
    /\ CURRENT_MODE = "CHAT"
    /\ is_emergency = FALSE
    /\ conversations = <<>>
    /\ decisions = <<>>
    /\ bracelet_data_store = <<>>
    /\ user_baselines = <<>>
    /\ packet \in
          {Packet("d1", None, <<>>)}
          \cup {Packet("d1", None, Sensors(b, h, t, a, f, i)) :
                    b \in {44, 45, 70, 100, 101, 120, 121, 130, 131, 160, 161},
                    h \in {19, 50},
                    t \in {299, 300, 305, 310, 330, 380, 381},
                    a \in {"running", "unknown"},
                    f \in BOOLEAN,
                    i \in 0..4}
    /\ reply = NoReply

\* the packet arrives
NextEnergy ==
    /\ reply = NoReply
    /\ receive_bracelet_data(packet)
    /\ UNCHANGED <<packet, notBracelet>>

SpecEnergy == InitEnergy /\ [][NextEnergy]_vars

-----------------------------------------------------------------------------
(* Properties *)

\* p is d or lies below it, component by component
IsUnder(p, d) == Len(d) <= Len(p) /\ SubSeq(p, 1, Len(d)) = d

\* the canonical form of the path given to is_path_allowed
Canonical(gin) == Resolve(Absolute(gin.path))

\* the subtrees meant for writing: ALLOWED_DIRECTORIES without the root,
\* which line 28 keeps "only for reading"
WritableZones == {ALLOWED_DIRECTORIES[1], ALLOWED_DIRECTORIES[2]}

InWritableZone(p) == \E z \in WritableZones : IsUnder(p, z)

\* the last component ends, letter case aside, with a forbidden extension
\* that follows a non-empty stem
HasForbiddenExtension(p) ==
    /\ p # <<>>
    /\ \E e \in FORBIDDEN_EXTENSIONS :
          /\ EndsWith(Lower(Chars[p[Len(p)]]), e)
          /\ Len(Chars[p[Len(p)]]) > Len(e)

\* C1: a path whose canonical form is not below the Valyria root is denied
\* as outside the root, for reading and for writing
C1_OutsideRootDenied ==
    (guardOut # "none" /\ ~IsUnder(Canonical(guardIn), VALYRIA_ROOT))
        => guardOut = "OutsideRoot"

\* the files created, modified or deleted, the directories created and the
\* links removed by a step
ChangedFiles ==
    {p \in DOMAIN files \cup DOMAIN files' :
        \/ p \notin DOMAIN files
        \/ p \notin DOMAIN files'
        \/ files[p] # files'[p]}

ChangedObjects ==
    ChangedFiles \cup (dirs' \ dirs) \cup (dirs \ dirs')
        \cup (DOMAIN links \ DOMAIN links') \cup (DOMAIN links' \ DOMAIN links)

FileTools == {"read_file", "write_file", "list_files", "delete_file"}

\* C2: a file read through the tools lies below the root; a file created,
\* modified or deleted lies in a writable zone and has no forbidden
\* extension; nothing outside the root is changed
C2_ToolsConfined ==
    [][ (phase = "called" /\ call.name \in FileTools) =>
          /\ \A p \in ChangedFiles : InWritableZone(p) /\ ~HasForbiddenExtension(p)
          /\ \A p \in ChangedObjects : IsUnder(p, VALYRIA_ROOT)
          /\ (phase' = "returned" /\ call.name = "read_file" /\ result'.success)
                => IsUnder(Resolve(result'.path), VALYRIA_ROOT) ]_vars

\* C3: below the root but in no writable zone, writing is denied for the
\* zone and reading is allowed
C3_RootReadOnly ==
    (/\ guardOut # "none"
     /\ IsUnder(Canonical(guardIn), VALYRIA_ROOT)
     /\ ~InWritableZone(Canonical(guardIn)))
        => guardOut = (IF guardIn.write THEN "ZoneDenied" ELSE "Allowed")

\* the path argument of the call being executed, when it is a string
CallPath == FilePath(call.args["path"])

\* a call of tool t that reached the handler with a string for its path
Handled(t) ==
    /\ phase = "returned"
    /\ call.name = t
    /\ Binds(t, call.args)
    /\ call.args["path"].kind = "str"

\* C4: in a writable zone, a forbidden extension in any letter case makes
\* write_file and delete_file fail on the extension check, while the path
\* stays authorized for reading
C4_ForbiddenExtension ==
    \A t \in {"read_file", "write_file", "delete_file"} :
        (/\ Handled(t)
         /\ InWritableZone(Resolve(CallPath))
         /\ HasForbiddenExtension(Resolve(CallPath)))
            => IF t = "read_file"
               THEN guardOut = "Allowed" /\ result.error # "Access denied"
               ELSE /\ guardOut = "ExtensionDenied"
                    /\ ~result.success
                    /\ result.error \in {"Write access denied", "Delete access denied"}

\* a write to data/x.EXE, in a writable zone, was refused on its extension
C4_Witness ==
    /\ Handled("write_file")
    /\ call.args["path"] = StrPath(FALSE, <<"data", "x.EXE">>)
    /\ guardOut = "ExtensionDenied"
    /\ ~result.success

\* a run_command call whose command is a string, after execute_tool returned
Commanded ==
    /\ phase = "returned"
    /\ call.name = "run_command"
    /\ call.args["command"].kind = "str"

CommandChars == call.args["command"].chars

\* the lower-cased command contains a denied fragment
ContainsDenied(c) ==
    \E i \in 1..Len(FORBIDDEN_COMMANDS) : Contains(Lower(c), FORBIDDEN_COMMANDS[i])

\* the command starts with an allowed prefix
StartsAllowed(c) ==
    \E i \in 1..Len(safe_prefixes) : StartsWith(c, safe_prefixes[i])

\* C5: a command containing a denied fragment fails with the forbidden
\* fragment error and no subprocess, whether or not its prefix is allowed
C5_DenyWins ==
    (Commanded /\ ContainsDenied(CommandChars))
        => /\ ~result.success
           /\ result.error = "Forbidden command"
           /\ proc = NoProc

\* "python rm x" was refused for its fragment
C5_Witness ==
    /\ Commanded
    /\ CommandChars = <<"p","y","t","h","o","n"," ","r","m"," ","x">>
    /\ result.error = "Forbidden command"

\* C6: a command with an allowed prefix and no denied fragment is
\* authorized and handed to subprocess.run
C6_AllowedRuns ==
    (Commanded /\ StartsAllowed(CommandChars) /\ ~ContainsDenied(CommandChars))
        => /\ proc # NoProc
           /\ proc.command = CommandChars
           /\ result.error \notin {"Forbidden command", "Command not in whitelist"}

\* "ls" ran and ended with exit status 0
C6_Witness ==
    /\ Commanded
    /\ CommandChars = <<"l","s">>
    /\ proc # NoProc
    /\ result.success

\* C7 as stated: a command without an allowed prefix fails as not
\* whitelisted and starts no subprocess
C7_NotWhitelisted ==
    (Commanded /\ ~StartsAllowed(CommandChars))
        => /\ ~result.success
           /\ result.error = "Command not in whitelist"
           /\ proc = NoProc

\* C7 amended: a command without an allowed prefix fails and starts no
\* subprocess; the error is the whitelist error unless the command holds a
\* denied fragment, which is reported instead
C7_NoPrefixNoProcess ==
    (Commanded /\ ~StartsAllowed(CommandChars))
        => /\ ~result.success
           /\ proc = NoProc
           /\ result.error = (IF ContainsDenied(CommandChars) THEN "Forbidden command"
                              ELSE "Command not in whitelist")

\* "xls" was refused by the whitelist
C7_Witness ==
    /\ Commanded
    /\ CommandChars = <<"x","l","s">>
    /\ result.error = "Command not in whitelist"
    /\ proc = NoProc

\* C8: execute_tool never raises to its caller, and a call it cannot bind
\* or dispatch comes back as a failure with an error text
C8_NeverRaises ==
    /\ phase # "raised"
    /\ (phase = "returned" /\ (call.name \notin AVAILABLE_TOOLS \/ ~Binds(call.name, call.args)))
          => ~result.success /\ result.error \notin {"", None}

\* C9: a failing tool call does not end the loop: what execute_tool was
\* asked comes back as a tool result in the batch, and the loop is aborted
\* only while waiting for the engine
C9_ToolFailureNotFatal ==
    [][ /\ (pc = "ExecutingTools" /\ phase \in {"returned", "raised"} /\ phase' = "idle")
            => /\ pc' = "ExecutingTools"
               /\ Len(tool_results') = Len(tool_results) + 1
        /\ (pc # "Aborted" /\ pc' = "Aborted") => pc = "AwaitingEngine" ]_vars

\* the maximum of LoopState, for a loop that stops one turn short of the
\* most turns an engine of this model asks for
LoopMaximum == MaxTurns - 1

\* C10: at every check of the loop condition the turns taken are within
\* the maximum
C10_LoopBounded == turns <= LoopMaximum

\* the batch appended for the response r answers its tool_use blocks one
\* by one, in their order, under their identifiers
BatchAnswers(batch, r) ==
    /\ Len(batch) = Len(ToolUsesOf(r))
    /\ \A k \in 1..Len(batch) :
          /\ batch[k].type = "tool_result"
          /\ batch[k].tool_use_id = ToolUsesOf(r)[k].id

\* C11: the tool calls of one response are executed one at a time in the
\* order requested, each once, every result is tagged with the identifier
\* of its call, and the loop goes on from the batch only by appending one
\* result per requested call, in the same order
C11_BatchInOrder ==
    [][ /\ (pc = "ExecutingTools" /\ phase = "idle" /\ phase' = "called")
            => LET b == ToolUsesOf(response)[Len(tool_results) + 1]
               IN  call' = Call(b.name, b.input)
        /\ (pc = "ExecutingTools" /\ tool_results' # tool_results)
            => /\ phase = "returned"
               /\ Len(tool_results') = Len(tool_results) + 1
               /\ SubSeq(tool_results', 1, Len(tool_results)) = tool_results
               /\ LET b == ToolUsesOf(response)[Len(tool_results') ]
                   IN  /\ call = Call(b.name, b.input)
                       /\ tool_results'[Len(tool_results')].tool_use_id = b.id
                       /\ tool_results'[Len(tool_results')].content = result
        /\ (pc = "ExecutingTools" /\ pc' # "ExecutingTools")
            => /\ BatchAnswers(tool_results, response)
               /\ Len(messages') = Len(messages) + 2
               /\ messages'[Len(messages')].content = tool_results ]_vars

\* C12: the loop goes from AwaitingEngine to Done exactly on a response
\* without tool_use blocks, answering with its text; a response holding a
\* tool_use block has it executed, and no tool runs for a text-only response
C12_DoneIffTextOnly ==
    [][ /\ (pc = "AwaitingEngine" /\ pc' = "Done")
            => /\ ToolUsesOf(response') = <<>>
               /\ answer' = FinalText(response')
        /\ (pc = "AwaitingEngine" /\ response' # response)
            => (pc' = IF ToolUsesOf(response') = <<>> THEN "Done" ELSE "ExecutingTools")
        /\ (phase = "idle" /\ phase' = "called") => ToolUsesOf(response) # <<>> ]_vars

\* C13: when the engine call fails, at the first request or at a later one,
\* valyria_think ends in Aborted and returns the offline answer to the
\* user's message, and nothing happens after that
C13_EngineFailureFallsBack ==
    [][ /\ (pc = "AwaitingEngine" /\ pc' = "Aborted")
            => /\ answer' = << IF is_emergency THEN "[OFFLINE - EMERGENCY]"
                                ELSE "[Offline mode]",
                               valyria_offline_think(messages[1].content,
                                                     request.playbooks, CURRENT_MODE) >>
               /\ UNCHANGED <<fsVars, messages>>
        /\ pc = "Aborted" => UNCHANGED vars ]_vars

\* the engine failed at the request that followed the first batch of
\* tool results, and the user who wrote "Fire" got the fire protocol
C13_Witness ==
    /\ pc = "Aborted"
    /\ turns = 1
    /\ response.stop_reason = "tool_use"
    /\ BatchAnswers(tool_results, response)
    /\ messages[Len(messages)].content = tool_results
    /\ request.message = <<"F","i","r","e">>
    /\ answer = <<"[Offline mode]", "EMERGENCY PROTOCOL: fire">>

\* C14: after a successful write_file(p, c) in overwrite mode read_file(p)
\* returns exactly c whatever the file held, and after a successful append
\* of c it returns what it returned before (nothing for a new file)
\* followed by c, so that two appends read back in their order
C14_RoundTrip ==
    [][ (phase = "called" /\ phase' = "returned" /\ call.name = "write_file"
            /\ result'.success)
        => LET mode == Arg(call.args, "mode", StrMode("w")).mode
               before == read_file(call.args["path"], "ok").result
               prior == IF mode = "a" /\ before.success THEN before.content ELSE <<>>
           IN  /\ (read_file(call.args["path"], "ok").result.success)'
               /\ (read_file(call.args["path"], "ok").result.content)'
                      = prior \o call.args["content"].text ]_vars

\* C15: the names advertised in TOOL_SCHEMAS are the names execute_tool
\* dispatches: every registered tool is advertised and a call of a tool
\* that is not advertised is answered as an unknown tool
C15_ManifestInSync ==
    /\ TOOL_SCHEMAS = AVAILABLE_TOOLS
    /\ (phase = "returned" /\ call.name \notin TOOL_SCHEMAS)
          => (~result.success /\ result.error = "Unknown tool")

\* C17: for a tool name that is not in the registry execute_tool returns
\* success=false with the unknown-tool error, calls no handler (no guard is
\* asked, no subprocess started) and leaves the disk as it was
C17_UnknownTool ==
    [][ (phase = "called" /\ phase' = "returned" /\ call.name \notin AVAILABLE_TOOLS)
        => /\ result' = [success |-> FALSE, error |-> "Unknown tool"]
           /\ guardIn' = NoGuard.in /\ guardOut' = NoGuard.out
           /\ proc' = NoProc
           /\ UNCHANGED fsVars ]_vars

\* generate_image was called while the image generator is not installed,
\* and web_search, which no build registers, was called
C17_Witness ==
    /\ phase = "returned"
    /\ \/ call.name = "generate_image" /\ ~IMAGE_GEN_AVAILABLE
       \/ call.name = "web_search"
    /\ result.error = "Unknown tool"

\* the path a file tool is called with
PathArgument(c) ==
    IF c.name = "list_files" THEN Arg(c.args, "directory", StrPath(FALSE, <<>>))
    ELSE c.args["path"]

\* the intent a file tool has to ask the guard for
WriteIntent(t) == t \in {"write_file", "delete_file"}

\* C18: a file tool asks the guard about its own path with its own intent
\* (write for write_file and delete_file, read for read_file and
\* list_files) on the disk as it is before the call, and when the guard
\* denies, the call fails and files, directories and links are unchanged
C18_AuthorizedBeforeDisk ==
    [][ (/\ phase = "called" /\ phase' = "returned"
         /\ call.name \in FileTools
         /\ Binds(call.name, call.args)
         /\ PathArgument(call).kind = "str")
        => LET fp == FilePath(PathArgument(call))
               verdict == PathVerdict(fp, WriteIntent(call.name))
           IN  /\ guardIn' = [path |-> [abs |-> TRUE, parts |-> fp],
                              write |-> WriteIntent(call.name)]
               /\ guardOut' = verdict
               /\ verdict # "Allowed"
                    => (~result'.success /\ UNCHANGED <<files, dirs, links>>) ]_vars

\* delete_file on /etc/n.txt asked the guard for writing, was denied, and
\* the file is still there
C18_Witness ==
    /\ Handled("delete_file")
    /\ call.args["path"] = StrPath(TRUE, <<"etc", "n.txt">>)
    /\ guardIn.write
    /\ guardOut = "OutsideRoot"
    /\ ~result.success
    /\ <<"etc", "n.txt">> \in DOMAIN files

\* C19: delete_file succeeds only on a path for which write_file would be
\* authorized; when it succeeds the path no longer exists; when the path
\* is denied or does not exist it fails and the disk is unchanged
C19_DeleteAsWrite ==
    [][ (/\ phase = "called" /\ phase' = "returned"
         /\ call.name = "delete_file"
         /\ Binds("delete_file", call.args)
         /\ call.args["path"].kind = "str")
        => LET fp == FilePath(call.args["path"])
               writable == write_file(call.args["path"], StrText(<<"c">>),
                                      StrMode("w"), "ok").guard.out = "Allowed"
               there == Exists(dirs, files, links, fp)
           IN  /\ result'.success => (writable /\ ~Exists(dirs', files', links', fp))
               /\ (~writable \/ ~there)
                    => (~result'.success /\ UNCHANGED <<files, dirs, links>>) ]_vars

\* data/n.txt was deleted
C19_Witness ==
    /\ Handled("delete_file")
    /\ call.args["path"] = StrPath(FALSE, <<"data", "n.txt">>)
    /\ result.success
    /\ guardIn.write /\ guardOut = "Allowed"
    /\ <<"app", "data", "n.txt">> \notin DOMAIN files

\* the subprocess of the call was started and did not end within its timeout
RanOutOfTime == proc.started /\ proc.outcome = "timeout"

\* C16: a run_command call whose subprocess does not end within its
\* timeout, 30 seconds unless the call gives one, fails with the timed-out
\* error, and no other outcome (a non-zero exit code, a fault of the
\* execution, a refused command) gives that error
C16_TimeoutDistinct ==
    Commanded =>
        /\ RanOutOfTime => (~result.success /\ result.error = "Command timed out")
        /\ result.error = "Command timed out" => RanOutOfTime
        /\ (RanOutOfTime /\ "timeout" \notin DOMAIN call.args) => proc.timeout = 30

\* "ls" ran with the default timeout, did not end in time, and the call
\* failed with the timed-out error
C16_Witness ==
    /\ Commanded
    /\ CommandChars = <<"l","s">>
    /\ "timeout" \notin DOMAIN call.args
    /\ RanOutOfTime
    /\ proc.timeout = 30
    /\ result.error = "Command timed out"

\* C20: a result of execute_tool with success=false has its error set and
\* no payload, and a result with success=true has no error; so also for
\* run_command when the subprocess ends with a non-zero exit code
C20_ToolResultInvariant ==
    phase = "returned" =>
        IF result.success THEN result.error = None
        ELSE /\ result.error \notin {None, ""}
             /\ "content" \in DOMAIN result => result.content = None
             /\ "output" \in DOMAIN result => result.output = None
             /\ "files" \in DOMAIN result => result.files = {}

\* the device's record in the store is a registration
Registered(store, d) == d \in DOMAIN store /\ "user_id" \in DOMAIN store[d]

\* the answer r is that of a successful registration of d
RegisteredAgain(r, d) ==
    /\ r.code = 200
    /\ "device_id" \in DOMAIN r.body
    /\ r.body.device_id = d
    /\ r.body.status = "registered"

\* C29: once device d is registered for user u, and until d is registered
\* again, whatever packets arrive for d, get_bracelet_history(u) lists d and
\* get_bracelet_status(d) reports u's registration (user_id, serial_number,
\* status)
C29_RegistrationKept ==
    [][ \A d \in Devices :
          (Registered(bracelet_data_store, d)
               /\ ~RegisteredAgain(reply', d))
          => LET was == bracelet_data_store[d]
                 status == BraceletStatus(bracelet_data_store', d)
                 history == BraceletHistory(bracelet_data_store', was.user_id)
             IN  /\ history.code = 200 /\ d \in history.body.devices
                 /\ status.code = 200
                 /\ Registered(bracelet_data_store', d)
                 /\ status.body.user_id = was.user_id
                 /\ status.body.serial_number = was.serial_number
                 /\ status.body.status = was.status ]_vars

\* the alerts the response of /bracelet/data reports
AlertsOf(r) ==
    IF "emergency_response" \in DOMAIN r.body THEN r.body.emergency_response.alerts
    ELSE <<>>

\* a MEDICAL alert raised for the heart rate alone or for the temperature
CriticalAlert(a) ==
    /\ a.type = "MEDICAL"
    /\ \/ DOMAIN a.trigger = {"heart_rate"} /\ (a.trigger.heart_rate < 45
                                                  \/ a.trigger.heart_rate > 160)
       \/ DOMAIN a.trigger = {"temperature"} /\ (a.trigger.temperature > 380
                                                   \/ a.trigger.temperature < 300)

\* C30: the energy state reported for a packet is "emergency" exactly when
\* a MEDICAL alert for a critical heart rate or for the temperature is
\* raised, and with a PANIC alert it is "anxious" or "emergency"
C30_EnergyMatchesAlerts ==
    (reply.code = 200 /\ reply.body.status = "received")
    => LET alerts == AlertsOf(reply)
       IN  /\ reply.body.energy_state = "emergency"
                <=> (\E k \in 1..Len(alerts) : CriticalAlert(alerts[k]))
           /\ (\E k \in 1..Len(alerts) : alerts[k].type = "PANIC")
                => reply.body.energy_state \in {"anxious", "emergency"}
           /\ reply.body.alerts_triggered = Len(alerts)

\* a packet with a racing heart, a cold skin and agitated motion raised a
\* PANIC alert in state "anxious"
C30_Witness ==
    /\ reply.code = 200
    /\ reply.body.status = "received"
    /\ reply.body.energy_state = "anxious"
    /\ \E k \in 1..Len(AlertsOf(reply)) : AlertsOf(reply)[k].type = "PANIC"
    /\ packet["sensors"].heart_rate.bpm = 131

\* os.path.normpath of a path: ".." steps to the parent, links are not followed
NormPath(p) == Walk(<<>>, p, 0)

\* a list_files call that returned a successful listing
Listed ==
    /\ phase = "returned"
    /\ call.name = "list_files"
    /\ result.success
    /\ "files" \in DOMAIN result

\* C25: a successful list_files result holds only regular files matching
\* the pattern, and every entry's path, taken from VALYRIA_ROOT, lies under
\* VALYRIA_ROOT
C25_ListedUnderRoot ==
    Listed =>
        \A f \in result.files :
            /\ IsFile(dirs, files, links, VALYRIA_ROOT \o f.path)
            /\ (VALYRIA_ROOT \o f.path) \in Glob(result.directory, result.pattern)
            /\ IsUnder(NormPath(VALYRIA_ROOT \o f.path), VALYRIA_ROOT)

\* the programs the run_command schema advertises: src/main.py lines 83-98
AdvertisedPrograms ==
    { <<"p","y","t","h","o","n">>, <<"p","y">>, <<"p","i","p">>,
      <<"p","y","t","e","s","t">>, <<"l","s">>, <<"d","i","r">>,
      <<"c","a","t">>, <<"t","y","p","e">> }

RECURSIVE FirstWord(_)
\* the characters of a command before its first blank
FirstWord(c) ==
    IF c = <<>> \/ Head(c) = " " THEN <<>>
    ELSE <<Head(c)>> \o FirstWord(Tail(c))

\* C26: the first whitespace-delimited word of every command handed to
\* subprocess.run is exactly one of the advertised programs
C26_FirstWordAdvertised ==
    (Commanded /\ proc # NoProc) => FirstWord(CommandChars) \in AdvertisedPrograms

\* C22: the engine is called again only after every tool call of the batch
\* was executed and its result appended: the step back to AwaitingEngine
\* appends the assistant response and then the complete batch of results,
\* the transcript changes in no other step, and every engine response is
\* the answer to one request, which ends the wait
C22_ReinvokedAfterBatch ==
    [][ /\ (pc # "AwaitingEngine" /\ pc' = "AwaitingEngine")
            => /\ pc = "ExecutingTools"
               /\ phase = "idle"
               /\ BatchAnswers(tool_results, response)
               /\ messages' = messages \o
                     << [role |-> "assistant", kind |-> "blocks",
                         content |-> response.content],
                        [role |-> "user", kind |-> "tool_results",
                         content |-> tool_results] >>
               /\ turns' = turns + 1
        /\ (messages' # messages)
            => (pc = "ExecutingTools" /\ pc' = "AwaitingEngine")
        /\ (response' # response)
            => (pc = "AwaitingEngine" /\ pc' # "AwaitingEngine") ]_vars

\* the engine is asked again after a batch of two calls, both answered
C22_Witness ==
    /\ pc = "AwaitingEngine"
    /\ turns = 1
    /\ Len(messages) = 3
    /\ Len(ToolUsesOf(response)) = 2
    /\ Len(messages[3].content) = 2

\* a chat request is in flight: valyria_think runs or has just returned
InFlight == pc \in {"AwaitingEngine", "ExecutingTools", "Done", "Aborted"}

\* C21: nothing an invocation reads is changed by another request while the
\* invocation is in flight: CURRENT_MODE keeps its value from the arrival
\* of a chat request to its reply
C21_ModeNotSharedInFlight ==
    [][ InFlight => CURRENT_MODE' = CURRENT_MODE ]_vars

\* C23: the transcript of the first engine request is the last 10 stored
\* turns (the last 3 in emergency mode), oldest first, each as a user
\* message followed by an assistant message, and then the new user message
C23_FirstTranscript ==
    (pc = "AwaitingEngine" /\ turns = 0) =>
        LET n == Len(conversations)
            limit == IF is_emergency THEN 3 ELSE 10
            k == IF n < limit THEN n ELSE limit
        IN  /\ Len(messages) = 2 * k + 1
            /\ \A j \in 1..k :
                  /\ messages[2 * j - 1] =
                        [role |-> "user", kind |-> "text",
                         content |-> conversations[n - k + j].user]
                  /\ messages[2 * j] =
                        [role |-> "assistant", kind |-> "text",
                         content |-> conversations[n - k + j].assistant]
            /\ messages[2 * k + 1] =
                  [role |-> "user", kind |-> "text", content |-> request.message]

\* the first request of a chat in emergency mode with more than 10 turns
\* stored carries 3 of them, and one outside emergency mode carries 10
C23_Witness ==
    /\ pc = "AwaitingEngine"
    /\ turns = 0
    /\ Len(conversations) > 10
    /\ Len(messages) = IF is_emergency THEN 7 ELSE 21
    /\ is_emergency

\* C24: a chat request stores exactly one turn, the user's message with the
\* text valyria_think returned, and only once the loop is Done or Aborted:
\* the store changes in no other step and never again after the reply
C24_OneTurnPersisted ==
    [][ /\ (conversations' # conversations)
            => /\ pc \in {"Done", "Aborted"}
               /\ pc' = "Replied"
               /\ conversations' =
                     Append(conversations,
                            [user |-> request.message, assistant |-> answer])
               /\ pc = "Done" => answer = FinalText(response)
               /\ pc = "Aborted"
                     => answer[1] \in {"[OFFLINE - EMERGENCY]", "[Offline mode]"}
        /\ (pc \in {"Done", "Aborted"} /\ pc' # pc)
            => /\ pc' = "Replied"
               /\ Len(conversations') = Len(conversations) + 1
        /\ (pc = "Replied") => conversations' = conversations ]_vars

\* a request whose loop was aborted was replied to, its turn stored with
\* the offline answer
C24_Witness ==
    /\ pc = "Replied"
    /\ Len(request.history) = 2
    /\ Len(conversations) = 3
    /\ conversations[3].user = request.message
    /\ conversations[3].assistant[1] = "[Offline mode]"

\* msgs is well formed: roles alternate from a user message to a user
\* message, and every message of tool results follows the assistant message
\* whose tool_use blocks it answers, one result per block, at least one
WellFormed(msgs) ==
    /\ msgs # <<>>
    /\ msgs[1].role = "user"
    /\ msgs[Len(msgs)].role = "user"
    /\ \A i \in 1..(Len(msgs) - 1) : msgs[i].role # msgs[i + 1].role
    /\ \A i \in 1..Len(msgs) :
          /\ msgs[i].role \in {"user", "assistant"}
          /\ msgs[i].kind = "tool_results"
                => /\ i > 1
                   /\ msgs[i].role = "user"
                   /\ msgs[i - 1].role = "assistant"
                   /\ msgs[i - 1].kind = "blocks"
                   /\ Len(msgs[i].content) >= 1
                   /\ BatchAnswers(msgs[i].content, [content |-> msgs[i - 1].content])

\* C27: the transcript only grows at its end, and whenever the engine is
\* about to be asked it is well formed
C27_TranscriptWellFormed ==
    [][ /\ Len(messages) <= Len(messages')
        /\ SubSeq(messages', 1, Len(messages)) = messages
        /\ (pc' = "AwaitingEngine") => WellFormed(messages') ]_vars

\* the third request of an invocation that started from two stored turns:
\* five messages of history and two rounds of tool results
C27_Witness ==
    /\ pc = "AwaitingEngine"
    /\ turns = 2
    /\ Len(request.history) = 2
    /\ Len(messages) = 9
    /\ messages[9].kind = "tool_results"

\* C28: the answer of an invocation that falls back offline carries the
\* prefix "[OFFLINE - EMERGENCY]" exactly when valyria_offline_think, called
\* for that answer, finds CURRENT_MODE to be EMERGENCY, and the prefix
\* "[Offline mode]" otherwise
C28_OfflinePrefixConsistent ==
    [][ (pc # "Aborted" /\ pc' = "Aborted")
            => /\ answer'[1] =
                     IF CURRENT_MODE = "EMERGENCY"
                     THEN "[OFFLINE - EMERGENCY]" ELSE "[Offline mode]"
               /\ answer'[2] =
                     valyria_offline_think(request.message, request.playbooks,
                                           CURRENT_MODE) ]_vars

====
